---- MODULE Spec2Model ----
(***************************************************************************)
(* A model of the LSM storage engine core: skip list, memtable and its     *)
(* manager, WAL record codec and reader, block and SSTable builder/reader. *)
(* Byte strings are sequences of naturals below 256; Option<T> is a        *)
(* sequence of length at most one (<<>> is None, <<x>> is Some(x)).        *)
(***************************************************************************)
EXTENDS Integers, Sequences, FiniteSets, TLC

VARIABLES
    mgr,      \* MemTableManager: [active, immutable]
    call,     \* the last MemTableManager call of the sequential client and its result
    hist,     \* history of the writes the manager was given
    thr,      \* per thread: the call in progress and the position inside it
    lock,     \* the two RwLocks of the manager: [active, immutable]
    wlog,     \* per key, the writes in the order their write locks were released
    sst,      \* SSTableBuilder, the file it writes and the SSTable opened on it
    wal,      \* a WAL file, the damage done to it and the iterator reading it
    mem,      \* one MemTable and the last operation its client made on each key
    ww,       \* one WALWriter, its file in the page cache and on disk
    wm,       \* one WALManager, its directory and the flushes of its caller
    sl,       \* one SkipList, what its client inserted and what it was answered
    cur,      \* one SkipList, a SkipListIterator on it and the walk made with it
    mi,       \* one MemTable, an iterator on it and the walk its client made
    rc,       \* one WALRecord, its encoding and what decoding returned
    blk,      \* one BlockBuilder and the entries its client offered
    bf,       \* one BloomFilter, the hash of each key and the keys inserted
    mg        \* the sorted sources handed to one MergeIterator and what it yielded

vars == <<mgr, call, hist, thr, lock, wlog, sst, wal, mem, ww, wm, sl, cur, mi, rc, blk, bf, mg>>

----------------------------------------------------------------------------
(* Bounds of the model *)

\* random_height() results explored for the memtables of a manager: 1..MgrMaxHeight
MgrMaxHeight == 1
\* calls the concurrent clients of a manager start, in total
MaxCalls == 4

(* Program constants *)
MAX_HEIGHT == 12

----------------------------------------------------------------------------
(* Byte strings *)

Min(a, b) == IF a < b THEN a ELSE b

\* the one-byte keys the memtable clients use
Keys == { <<1>>, <<2>> }
\* the values the memtable clients put; the empty one is a tombstone
Values == { <<>>, <<5>>, <<6>> }

\* Ord for [u8]: lexicographic, a strict prefix is smaller
RECURSIVE Less(_, _)
Less(a, b) ==
    IF b = <<>> THEN FALSE
    ELSE IF a = <<>> THEN TRUE
    ELSE IF a[1] < b[1] THEN TRUE
    ELSE IF a[1] > b[1] THEN FALSE
    ELSE Less(Tail(a), Tail(b))

----------------------------------------------------------------------------
(* Skip list: an arena of nodes, node i of the arena is nodes[i + 1] *)

SkipListNew ==
    [ nodes  |-> << [ key |-> <<>>, value |-> <<>>,
                      forward |-> [ l \in 1..MAX_HEIGHT |-> <<>> ] ] >>,
      height |-> 1,
      len    |-> 0 ]

\* the heights random_height() can return, within the bound
RandomHeights == 1..Min(MgrMaxHeight, MAX_HEIGHT)

\* a search loop without the check for an existing key
RECURSIVE InsertSearch_NoOverwrite(_, _, _, _, _)
InsertSearch_NoOverwrite(list, key, level, current, update) ==
    LET next == list.nodes[current + 1].forward[level + 1] IN
    IF next # <<>> /\ Less(list.nodes[next[1] + 1].key, key)
    THEN InsertSearch_NoOverwrite(list, key, level, next[1], update)
    ELSE LET upd == [ update EXCEPT ![level + 1] = current ] IN
         IF level = 0 THEN [ found |-> <<>>, update |-> upd ]
         ELSE InsertSearch_NoOverwrite(list, key, level - 1, current, upd)

\* the search loop of insert: walks right while the next key is smaller, returns
\* at once on an equal key (at any level), else records the predecessor and drops
RECURSIVE InsertSearch(_, _, _, _, _)
InsertSearch(list, key, level, current, update) ==
    LET next == list.nodes[current + 1].forward[level + 1] IN
    IF next # <<>> /\ Less(list.nodes[next[1] + 1].key, key)
    THEN InsertSearch(list, key, level, next[1], update)
    ELSE IF next # <<>> /\ list.nodes[next[1] + 1].key = key
    THEN [ found |-> next, update |-> update ]
    ELSE LET upd == [ update EXCEPT ![level + 1] = current ] IN
         IF level = 0 THEN [ found |-> <<>>, update |-> upd ]
         ELSE InsertSearch(list, key, level - 1, current, upd)

RECURSIVE Splice(_, _, _, _, _)
Splice(nodes, update, new_idx, level, new_height) ==
    IF level >= new_height THEN nodes
    ELSE LET pred == update[level + 1]
             n1 == [ nodes EXCEPT ![new_idx + 1].forward[level + 1] =
                                      nodes[pred + 1].forward[level + 1] ]
             n2 == [ n1 EXCEPT ![pred + 1].forward[level + 1] = <<new_idx>> ]
         IN Splice(n2, update, new_idx, level + 1, new_height)

\* an insert that counts an overwrite as a new entry
SkipListInsert_CountsOverwrite(list, key, value, new_height) ==
    LET s == InsertSearch(list, key, list.height - 1, 0, [ l \in 1..MAX_HEIGHT |-> 0 ]) IN
    IF s.found # <<>>
    THEN [ list EXCEPT !.nodes[s.found[1] + 1].value = value, !.len = @ + 1 ]
    ELSE LET update  == [ l \in 1..MAX_HEIGHT |->
                            IF l > list.height /\ l <= new_height THEN 0 ELSE s.update[l] ]
             height  == IF new_height > list.height THEN new_height ELSE list.height
             new_idx == Len(list.nodes)
             node    == [ key |-> key, value |-> value,
                          forward |-> [ l \in 1..new_height |-> <<>> ] ]
         IN [ nodes  |-> Splice(Append(list.nodes, node), update, new_idx, 0, new_height),
              height |-> height,
              len    |-> list.len + 1 ]

\* insert(key, value); new_height is what random_height() returns when it is called
SkipListInsert(list, key, value, new_height) ==
    LET s == InsertSearch(list, key, list.height - 1, 0, [ l \in 1..MAX_HEIGHT |-> 0 ]) IN
    IF s.found # <<>>
    THEN [ list EXCEPT !.nodes[s.found[1] + 1].value = value ]
    ELSE LET update  == [ l \in 1..MAX_HEIGHT |->
                            IF l > list.height /\ l <= new_height THEN 0 ELSE s.update[l] ]
             height  == IF new_height > list.height THEN new_height ELSE list.height
             new_idx == Len(list.nodes)
             node    == [ key |-> key, value |-> value,
                          forward |-> [ l \in 1..new_height |-> <<>> ] ]
         IN [ nodes  |-> Splice(Append(list.nodes, node), update, new_idx, 0, new_height),
              height |-> height,
              len    |-> list.len + 1 ]

\* the search loop shared by get and seek_to: the predecessor of key at level 0
RECURSIVE SearchPred(_, _, _, _)
SearchPred(list, key, level, current) ==
    LET next == list.nodes[current + 1].forward[level + 1] IN
    IF next # <<>> /\ Less(list.nodes[next[1] + 1].key, key)
    THEN SearchPred(list, key, level, next[1])
    ELSE IF level = 0 THEN current
    ELSE SearchPred(list, key, level - 1, current)

SkipListGet(list, key) ==
    LET current   == SearchPred(list, key, list.height - 1, 0)
        candidate == list.nodes[current + 1].forward[1]
    IN IF candidate # <<>> /\ list.nodes[candidate[1] + 1].key = key
       THEN << list.nodes[candidate[1] + 1].value >>
       ELSE <<>>

SkipListLen(list) == list.len

SkipListIsEmpty(list) == list.len = 0

----------------------------------------------------------------------------
(* Skip list iterator: a cursor on a list that is borrowed while it lives *)

\* iter(): the cursor starts at the first node of level 0
SkipListIter(list) == [ current |-> list.nodes[1].forward[1] ]

IteratorIsValid(it) == it.current # <<>>

\* key(): [panics, bytes]; expect("iterator not valid") panics on None
IteratorKey(list, it) ==
    IF it.current = <<>> THEN [ panics |-> TRUE, bytes |-> <<>> ]
    ELSE [ panics |-> FALSE, bytes |-> list.nodes[it.current[1] + 1].key ]

\* value(): [panics, bytes]
IteratorValue(list, it) ==
    IF it.current = <<>> THEN [ panics |-> TRUE, bytes |-> <<>> ]
    ELSE [ panics |-> FALSE, bytes |-> list.nodes[it.current[1] + 1].value ]

\* advance(): follows forward[0]; does nothing on a cursor that is not valid
IteratorAdvance(list, it) ==
    IF it.current # <<>>
    THEN [ it EXCEPT !.current = list.nodes[it.current[1] + 1].forward[1] ]
    ELSE it

\* a seek that stops on the predecessor of the target
IteratorSeekTo_StopsAtPredecessor(list, it, target) ==
    LET current == SearchPred(list, target, list.height - 1, 0) IN
    [ it EXCEPT !.current = IF current = 0 THEN list.nodes[1].forward[1] ELSE << current >> ]

\* seek_to(target): the node after the predecessor of target at level 0
IteratorSeekTo(list, it, target) ==
    LET current == SearchPred(list, target, list.height - 1, 0) IN
    [ it EXCEPT !.current = list.nodes[current + 1].forward[1] ]

\* StorageIterator::next: [ok, it]
IteratorNext(list, it) == [ ok |-> TRUE, it |-> IteratorAdvance(list, it) ]

\* StorageIterator::seek: [ok, it]
IteratorSeek(list, it, key) == [ ok |-> TRUE, it |-> IteratorSeekTo(list, it, key) ]

----------------------------------------------------------------------------
(* MemTable *)

MemTableNew(size_limit) == [ data |-> SkipListNew, size_limit |-> size_limit ]

\* a put that ignores an empty value
MemTablePut_DropsEmptyValue(mt, key, value, h) ==
    IF value = <<>> THEN mt ELSE [ mt EXCEPT !.data = SkipListInsert(mt.data, key, value, h) ]

MemTablePut(mt, key, value, h) == [ mt EXCEPT !.data = SkipListInsert(mt.data, key, value, h) ]

\* a get that hands out the stored value, a tombstone too
MemTableGet_ReturnsTombstone(mt, key) == SkipListGet(mt.data, key)

\* None if not found or if tombstoned
MemTableGet(mt, key) ==
    LET r == SkipListGet(mt.data, key) IN
    IF r # <<>> /\ r[1] = <<>> THEN <<>> ELSE r

\* a delete that writes no tombstone for a key the memtable does not hold
MemTableDelete_SkipsAbsentKey(mt, key, h) ==
    IF SkipListGet(mt.data, key) = <<>> THEN mt
    ELSE [ mt EXCEPT !.data = SkipListInsert(mt.data, key, <<>>, h) ]

MemTableDelete(mt, key, h) == [ mt EXCEPT !.data = SkipListInsert(mt.data, key, <<>>, h) ]

\* iter(): the iterator of the skip list, tombstones included
MemTableIter(mt) == SkipListIter(mt.data)

\* size_bytes() is todo!(): calling it panics
SkipListSizeBytes(list) == [ panics |-> TRUE, bytes |-> 0 ]

MemTableIsFull(mt) ==
    LET s == SkipListSizeBytes(mt.data) IN
    [ panics |-> s.panics, full |-> ~s.panics /\ s.bytes >= mt.size_limit ]

----------------------------------------------------------------------------
(* MemTableManager, each call taken as a whole *)

\* the size limit the manager is constructed with
SizeLimit == 64

MgrNew(size_limit) ==
    [ active |-> MemTableNew(size_limit), immutable |-> <<>>, size_limit |-> size_limit ]

MgrPut(m, key, value, h) == [ m EXCEPT !.active = MemTablePut(m.active, key, value, h) ]

\* a get that looks in the immutable memtable before the active one
MgrGet_ImmutableFirst(m, key) ==
    LET i == IF m.immutable # <<>> THEN MemTableGet(m.immutable[1], key) ELSE <<>> IN
    IF i # <<>> THEN i ELSE MemTableGet(m.active, key)

\* checks active first, then immutable
MgrGet(m, key) ==
    LET a == MemTableGet(m.active, key) IN
    IF a # <<>> THEN a
    ELSE IF m.immutable # <<>> THEN MemTableGet(m.immutable[1], key)
    ELSE <<>>

MgrDelete(m, key, h) == [ m EXCEPT !.active = MemTableDelete(m.active, key, h) ]

\* moves the active memtable into the immutable slot, whatever the slot holds
MgrFreeze(m) ==
    [ m EXCEPT !.active = MemTableNew(m.size_limit), !.immutable = << m.active >> ]

MgrHasImmutable(m) == m.immutable # <<>>

\* a clear_immutable that leaves the slot as it is
MgrClearImmutable_KeepsSlot(m) == m

MgrClearImmutable(m) == [ m EXCEPT !.immutable = <<>> ]

MgrIsFull(m) == MemTableIsFull(m.active)

----------------------------------------------------------------------------
(* A sequential client of MemTableManager *)

NoCall == [ op |-> "new", key |-> <<>>, res |-> <<>>, flag |-> FALSE, outcome |-> "ok" ]

\* last[k]: the kind of the last write given for k; act[k] / imm[1][k]: the value
\* last written for k into the memtable that is now active / was last frozen
HistNew ==
    [ last    |-> [ k \in Keys |-> "none" ],
      act     |-> [ k \in Keys |-> <<>> ],
      imm     |-> <<>>,
      cleared |-> FALSE ]

HistWrite(h, kind, key, value) ==
    [ h EXCEPT !.last[key] = kind,
               !.act[key]  = << value >> ]

\* the parts of the state a specification does not use
MgrIdle  == mgr = MgrNew(SizeLimit) /\ call = NoCall /\ hist = HistNew
ConcIdle == thr = <<>> /\ lock = <<>> /\ wlog = <<>>
SstIdle  == sst = <<>>
WalIdle  == wal = <<>>
MemIdle  == mem = <<>>
WriterIdle == ww = <<>>
WalMgrIdle == wm = <<>>
SkipIdle == sl = <<>>
CursorIdle == cur = <<>>
MemIterIdle == mi = <<>>
CodecIdle == rc = <<>>
BlockIdle == blk = <<>>
BloomIdle == bf = <<>>
MergeIdle == mg = <<>>
MoreIdle == SkipIdle /\ CursorIdle /\ MemIterIdle /\ CodecIdle /\ BlockIdle
NewIdle  == MemIdle /\ WriterIdle /\ WalMgrIdle /\ MoreIdle

InitMgr == MgrIdle /\ BloomIdle /\ MergeIdle /\ ConcIdle /\ SstIdle /\ WalIdle /\ NewIdle

SeqPut(k, v, h) ==
    /\ mgr'  = MgrPut(mgr, k, v, h)
    /\ call' = [ NoCall EXCEPT !.op = "put", !.key = k ]
    /\ hist' = HistWrite(hist, "put", k, v)
    /\ UNCHANGED <<thr, lock, wlog, sst, wal, mem, ww, wm, sl, cur, mi, rc, blk, bf, mg>>

SeqGet(k) ==
    /\ call' = [ NoCall EXCEPT !.op = "get", !.key = k, !.res = MgrGet(mgr, k) ]
    /\ UNCHANGED <<mgr, hist, thr, lock, wlog, sst, wal, mem, ww, wm, sl, cur, mi, rc, blk, bf, mg>>

SeqDelete(k, h) ==
    /\ mgr'  = MgrDelete(mgr, k, h)
    /\ call' = [ NoCall EXCEPT !.op = "delete", !.key = k ]
    /\ hist' = HistWrite(hist, "delete", k, <<>>)
    /\ UNCHANGED <<thr, lock, wlog, sst, wal, mem, ww, wm, sl, cur, mi, rc, blk, bf, mg>>

SeqFreeze ==
    /\ mgr'  = MgrFreeze(mgr)
    /\ call' = [ NoCall EXCEPT !.op = "freeze" ]
    /\ hist' = [ hist EXCEPT !.act = [ k \in Keys |-> <<>> ], !.imm = << hist.act >> ]
    /\ UNCHANGED <<thr, lock, wlog, sst, wal, mem, ww, wm, sl, cur, mi, rc, blk, bf, mg>>

SeqHasImmutable ==
    /\ call' = [ NoCall EXCEPT !.op = "has_immutable", !.flag = MgrHasImmutable(mgr) ]
    /\ UNCHANGED <<mgr, hist, thr, lock, wlog, sst, wal, mem, ww, wm, sl, cur, mi, rc, blk, bf, mg>>

SeqClearImmutable ==
    /\ mgr'  = MgrClearImmutable(mgr)
    /\ call' = [ NoCall EXCEPT !.op = "clear_immutable" ]
    /\ hist' = [ hist EXCEPT !.imm = <<>>, !.cleared = TRUE ]
    /\ UNCHANGED <<thr, lock, wlog, sst, wal, mem, ww, wm, sl, cur, mi, rc, blk, bf, mg>>

SeqIsFull ==
    /\ call' = LET r == MgrIsFull(mgr) IN
               [ NoCall EXCEPT !.op = "is_full", !.flag = r.full,
                               !.outcome = IF r.panics THEN "panic" ELSE "ok" ]
    /\ UNCHANGED <<mgr, hist, thr, lock, wlog, sst, wal, mem, ww, wm, sl, cur, mi, rc, blk, bf, mg>>

NextMgr ==
    \/ \E k \in Keys, v \in Values, h \in RandomHeights : SeqPut(k, v, h)
    \/ \E k \in Keys : SeqGet(k)
    \/ \E k \in Keys, h \in RandomHeights : SeqDelete(k, h)
    \/ SeqFreeze
    \/ SeqHasImmutable
    \/ SeqClearImmutable
    \/ SeqIsFull

SpecMgr == InitMgr /\ [][NextMgr]_vars

----------------------------------------------------------------------------
(* Concurrent clients of MemTableManager: each call is a sequence of steps, *)
(* one per lock acquisition and one per critical section                    *)

Threads == { 1, 2 }
\* the values the concurrent clients put
PutValues == { <<5>>, <<6>> }

\* std::sync::RwLock: writer is the thread holding it exclusively (0 for none),
\* readers the threads sharing it
RwLockNew == [ writer |-> 0, readers |-> {} ]

\* a write() that does not wait for the readers to leave
RwCanWrite_IgnoresReaders(l) == l.writer = 0

\* write() returns once nobody holds the lock
RwCanWrite(l) == l.writer = 0 /\ l.readers = {}

\* read() returns once no writer holds the lock
RwCanRead(l) == l.writer = 0

ThreadIdle == [ pc |-> "idle", op |-> "none", key |-> <<>>, value |-> <<>>,
                res |-> <<>>, seen |-> 0 ]

InitConc ==
    /\ mgr  = MgrNew(SizeLimit)
    /\ call = NoCall
    /\ hist = HistNew
    /\ thr  = [ t \in Threads |-> ThreadIdle ]
    /\ lock = [ active |-> RwLockNew, immutable |-> RwLockNew ]
    /\ wlog = [ writes |-> [ k \in Keys |-> <<>> ], cleared |-> FALSE, calls |-> 0 ]
    /\ SstIdle /\ WalIdle /\ NewIdle /\ BloomIdle /\ MergeIdle

\* the position a call starts at: waiting for its first lock
FirstPc(op) ==
    CASE op = "put"             -> "put_wait"
      [] op = "delete"          -> "delete_wait"
      [] op = "get"             -> "get_wait_active"
      [] op = "freeze"          -> "freeze_wait_active"
      [] op = "has_immutable"   -> "has_wait"
      [] op = "clear_immutable" -> "clear_wait"
      [] op = "is_full"         -> "full_wait"

\* a thread calls the manager
Start(t, op, k, v) ==
    /\ thr[t].pc = "idle"
    /\ wlog.calls < MaxCalls
    /\ thr'  = [ thr EXCEPT ![t] = [ pc |-> FirstPc(op), op |-> op, key |-> k,
                                     value |-> v, res |-> <<>>, seen |-> 0 ] ]
    /\ wlog' = [ wlog EXCEPT !.calls = @ + 1 ]
    /\ UNCHANGED <<mgr, call, hist, lock, sst, wal, mem, ww, wm, sl, cur, mi, rc, blk, bf, mg>>

\* self.active.write() of put, delete and freeze
LockActiveWrite(t) ==
    /\ thr[t].pc \in { "put_wait", "delete_wait", "freeze_wait_active" }
    /\ RwCanWrite(lock.active)
    /\ lock' = [ lock EXCEPT !.active.writer = t ]
    /\ thr'  = [ thr EXCEPT ![t].pc =
                   CASE thr[t].pc = "put_wait"    -> "put_held"
                     [] thr[t].pc = "delete_wait" -> "delete_held"
                     [] OTHER                     -> "freeze_wait_imm" ]
    /\ UNCHANGED <<mgr, call, hist, wlog, sst, wal, mem, ww, wm, sl, cur, mi, rc, blk, bf, mg>>

\* self.active.read() of get and is_full; seen is the number of writes to the
\* key of a get whose write lock was released before this read lock was acquired
LockActiveRead(t) ==
    /\ thr[t].pc \in { "get_wait_active", "full_wait" }
    /\ RwCanRead(lock.active)
    /\ lock' = [ lock EXCEPT !.active.readers = @ \cup { t } ]
    /\ thr'  = [ thr EXCEPT ![t].pc = IF thr[t].pc = "full_wait" THEN "full_held"
                                       ELSE "get_active",
                            ![t].seen = IF thr[t].pc = "full_wait" THEN 0
                                        ELSE Len(wlog.writes[thr[t].key]) ]
    /\ UNCHANGED <<mgr, call, hist, wlog, sst, wal, mem, ww, wm, sl, cur, mi, rc, blk, bf, mg>>

\* self.immutable.write() of freeze (holding the active write lock) and clear_immutable
LockImmutableWrite(t) ==
    /\ thr[t].pc \in { "freeze_wait_imm", "clear_wait" }
    /\ RwCanWrite(lock.immutable)
    /\ lock' = [ lock EXCEPT !.immutable.writer = t ]
    /\ thr'  = [ thr EXCEPT ![t].pc = IF thr[t].pc = "clear_wait" THEN "clear_held"
                                       ELSE "freeze_held" ]
    /\ UNCHANGED <<mgr, call, hist, wlog, sst, wal, mem, ww, wm, sl, cur, mi, rc, blk, bf, mg>>

\* self.immutable.read() of get and has_immutable
LockImmutableRead(t) ==
    /\ thr[t].pc \in { "get_wait_imm", "has_wait" }
    /\ RwCanRead(lock.immutable)
    /\ lock' = [ lock EXCEPT !.immutable.readers = @ \cup { t } ]
    /\ thr'  = [ thr EXCEPT ![t].pc = IF thr[t].pc = "has_wait" THEN "has_held"
                                       ELSE "get_imm" ]
    /\ UNCHANGED <<mgr, call, hist, wlog, sst, wal, mem, ww, wm, sl, cur, mi, rc, blk, bf, mg>>

\* put: insert under the write lock, which the return releases
PutBody(t, h) ==
    /\ thr[t].pc = "put_held"
    /\ mgr'  = MgrPut(mgr, thr[t].key, thr[t].value, h)
    /\ lock' = [ lock EXCEPT !.active.writer = 0 ]
    /\ wlog' = [ wlog EXCEPT !.writes[thr[t].key] = Append(@, << thr[t].value >>) ]
    /\ thr'  = [ thr EXCEPT ![t].pc = "idle", ![t].value = <<>> ]
    /\ UNCHANGED <<call, hist, sst, wal, mem, ww, wm, sl, cur, mi, rc, blk, bf, mg>>

\* delete: insert a tombstone under the write lock
DeleteBody(t, h) ==
    /\ thr[t].pc = "delete_held"
    /\ mgr'  = MgrDelete(mgr, thr[t].key, h)
    /\ lock' = [ lock EXCEPT !.active.writer = 0 ]
    /\ wlog' = [ wlog EXCEPT !.writes[thr[t].key] = Append(@, <<>>) ]
    /\ thr'  = [ thr EXCEPT ![t].pc = "idle" ]
    /\ UNCHANGED <<call, hist, sst, wal, mem, ww, wm, sl, cur, mi, rc, blk, bf, mg>>

\* get, first block: look in active; a hit returns, a miss goes on to immutable;
\* the read guard is dropped at the end of the block either way
GetActiveBody(t) ==
    /\ thr[t].pc = "get_active"
    /\ LET v == MemTableGet(mgr.active, thr[t].key) IN
       thr' = [ thr EXCEPT ![t].pc  = IF v # <<>> THEN "idle" ELSE "get_wait_imm",
                           ![t].res = v ]
    /\ lock' = [ lock EXCEPT !.active.readers = @ \ { t } ]
    /\ UNCHANGED <<mgr, call, hist, wlog, sst, wal, mem, ww, wm, sl, cur, mi, rc, blk, bf, mg>>

\* get, second block: look in immutable if there is one
GetImmutableBody(t) ==
    /\ thr[t].pc = "get_imm"
    /\ thr'  = [ thr EXCEPT ![t].pc  = "idle",
                            ![t].res = IF mgr.immutable # <<>>
                                       THEN MemTableGet(mgr.immutable[1], thr[t].key)
                                       ELSE <<>> ]
    /\ lock' = [ lock EXCEPT !.immutable.readers = @ \ { t } ]
    /\ UNCHANGED <<mgr, call, hist, wlog, sst, wal, mem, ww, wm, sl, cur, mi, rc, blk, bf, mg>>

\* freeze: swap under both write locks
FreezeBody(t) ==
    /\ thr[t].pc = "freeze_held"
    /\ mgr'  = MgrFreeze(mgr)
    /\ lock' = [ lock EXCEPT !.active.writer = 0, !.immutable.writer = 0 ]
    /\ thr'  = [ thr EXCEPT ![t].pc = "idle" ]
    /\ UNCHANGED <<call, hist, wlog, sst, wal, mem, ww, wm, sl, cur, mi, rc, blk, bf, mg>>

HasImmutableBody(t) ==
    /\ thr[t].pc = "has_held"
    /\ thr'  = [ thr EXCEPT ![t].pc = "idle",
                            ![t].res = IF MgrHasImmutable(mgr) THEN << <<1>> >> ELSE <<>> ]
    /\ lock' = [ lock EXCEPT !.immutable.readers = @ \ { t } ]
    /\ UNCHANGED <<mgr, call, hist, wlog, sst, wal, mem, ww, wm, sl, cur, mi, rc, blk, bf, mg>>

ClearImmutableBody(t) ==
    /\ thr[t].pc = "clear_held"
    /\ mgr'  = MgrClearImmutable(mgr)
    /\ lock' = [ lock EXCEPT !.immutable.writer = 0 ]
    /\ wlog' = [ wlog EXCEPT !.cleared = TRUE ]
    /\ thr'  = [ thr EXCEPT ![t].pc = "idle" ]
    /\ UNCHANGED <<call, hist, sst, wal, mem, ww, wm, sl, cur, mi, rc, blk, bf, mg>>

\* is_full: a panic under the read lock unwinds the thread, which drops the guard
\* (a read guard does not poison the lock); the thread is gone
IsFullBody(t) ==
    /\ thr[t].pc = "full_held"
    /\ LET r == MgrIsFull(mgr) IN
       thr' = [ thr EXCEPT ![t].pc  = IF r.panics THEN "panicked" ELSE "idle",
                           ![t].res = IF r.full THEN << <<1>> >> ELSE <<>> ]
    /\ lock' = [ lock EXCEPT !.active.readers = @ \ { t } ]
    /\ UNCHANGED <<mgr, call, hist, wlog, sst, wal, mem, ww, wm, sl, cur, mi, rc, blk, bf, mg>>

\* the steps of a call that is under way
ThreadStep(t) ==
    \/ LockActiveWrite(t)
    \/ LockActiveRead(t)
    \/ LockImmutableWrite(t)
    \/ LockImmutableRead(t)
    \/ \E h \in RandomHeights : PutBody(t, h)
    \/ \E h \in RandomHeights : DeleteBody(t, h)
    \/ GetActiveBody(t)
    \/ GetImmutableBody(t)
    \/ FreezeBody(t)
    \/ HasImmutableBody(t)
    \/ ClearImmutableBody(t)
    \/ IsFullBody(t)

NextConc ==
    \/ \E t \in Threads, k \in Keys, v \in PutValues : Start(t, "put", k, v)
    \/ \E t \in Threads, k \in Keys : Start(t, "delete", k, <<>>)
    \/ \E t \in Threads, k \in Keys : Start(t, "get", k, <<>>)
    \/ \E t \in Threads : Start(t, "freeze", <<>>, <<>>)
    \/ \E t \in Threads : Start(t, "has_immutable", <<>>, <<>>)
    \/ \E t \in Threads : Start(t, "clear_immutable", <<>>, <<>>)
    \/ \E t \in Threads : Start(t, "is_full", <<>>, <<>>)
    \/ \E t \in Threads : ThreadStep(t)

SpecConc == InitConc /\ [][NextConc]_vars

\* fair lock scheduling: a call that can take its next step again and again takes it
SpecConcFair == SpecConc /\ \A t \in Threads : SF_vars(ThreadStep(t))

----------------------------------------------------------------------------
(* Little-endian integers *)

\* every decoded integer at or above Huge is represented by Huge; the lengths and
\* offsets of the model stay far below it
Huge == 16777216

\* to_le_bytes of n in w bytes
RECURSIVE ToLE(_, _)
ToLE(n, w) == IF w = 0 THEN <<>> ELSE << n % 256 >> \o ToLE(n \div 256, w - 1)

\* from_le_bytes
FromLE(bytes) ==
    IF \E i \in 4..Len(bytes) : bytes[i] # 0 THEN Huge
    ELSE LET b(i) == IF i <= Len(bytes) THEN bytes[i] ELSE 0 IN
         b(1) + 256 * b(2) + 65536 * b(3)

\* `as u16`
AsU16(n) == n % 65536

\* the bytes of a file from offset on, size of them: seek and read_exact
ReadExact(file, offset, size) ==
    IF offset + size <= Len(file)
    THEN [ ok |-> TRUE, bytes |-> SubSeq(file, offset + 1, offset + size) ]
    ELSE [ ok |-> FALSE, bytes |-> <<>> ]

----------------------------------------------------------------------------
(* Block builder and block reader *)

BlockBuilderNew(block_size) == [ data |-> <<>>, offsets |-> <<>>, block_size |-> block_size ]

BlockEstimatedSize(bb) == Len(bb.data) + Len(bb.offsets) * 2 + 2

BlockIsEmpty(bb) == bb.offsets = <<>>

\* an add that applies the size check to the first entry too
BlockBuilderAdd_ChecksFirstEntry(bb, key, value) ==
    LET entry_size == 2 + 2 + Len(key) + Len(value) IN
    IF BlockEstimatedSize(bb) + entry_size > bb.block_size
    THEN [ ok |-> FALSE, bb |-> bb ]
    ELSE [ ok |-> TRUE,
           bb |-> [ bb EXCEPT
                      !.offsets = Append(@, AsU16(Len(bb.data))),
                      !.data = @ \o ToLE(AsU16(Len(key)), 2) \o ToLE(AsU16(Len(value)), 2)
                                 \o key \o value ] ]

\* add: [ok, bb]; a refused entry leaves the builder as it was
BlockBuilderAdd(bb, key, value) ==
    LET entry_size == 2 + 2 + Len(key) + Len(value) IN
    IF bb.offsets # <<>> /\ BlockEstimatedSize(bb) + entry_size > bb.block_size
    THEN [ ok |-> FALSE, bb |-> bb ]
    ELSE [ ok |-> TRUE,
           bb |-> [ bb EXCEPT
                      !.offsets = Append(@, AsU16(Len(bb.data))),
                      !.data = @ \o ToLE(AsU16(Len(key)), 2) \o ToLE(AsU16(Len(value)), 2)
                                 \o key \o value ] ]

RECURSIVE OffsetBytes(_)
OffsetBytes(offsets) ==
    IF offsets = <<>> THEN <<>> ELSE ToLE(offsets[1], 2) \o OffsetBytes(Tail(offsets))

BlockBuilderBuild(bb) ==
    bb.data \o OffsetBytes(bb.offsets) \o ToLE(AsU16(Len(bb.offsets)), 2)

\* Block::decode: the trailing count, the offsets before it, the entries before them
BlockDecode(bytes) ==
    IF Len(bytes) < 2 THEN [ ok |-> FALSE, data |-> <<>>, offsets |-> <<>> ]
    ELSE LET count == FromLE(SubSeq(bytes, Len(bytes) - 1, Len(bytes))) IN
         IF Len(bytes) < 2 + 2 * count THEN [ ok |-> FALSE, data |-> <<>>, offsets |-> <<>> ]
         ELSE LET region  == Len(bytes) - 2 - 2 * count
                  offsets == [ i \in 1..count |->
                                 FromLE(SubSeq(bytes, region + 2 * i - 1, region + 2 * i)) ]
                  valid   == /\ \A i \in 1..count : offsets[i] < region
                             /\ \A i \in 1..(count - 1) : offsets[i] < offsets[i + 1]
                             /\ count > 0 => offsets[1] = 0
              IN IF valid
                 THEN [ ok |-> TRUE, data |-> SubSeq(bytes, 1, region), offsets |-> offsets ]
                 ELSE [ ok |-> FALSE, data |-> <<>>, offsets |-> <<>> ]

\* the key and the value of the entry that starts at offset off of the entry region
BlockKeyAt(data, off) ==
    LET key_len == FromLE(SubSeq(data, off + 1, off + 2)) IN
    SubSeq(data, off + 5, off + 4 + key_len)
BlockValueAt(data, off) ==
    LET key_len == FromLE(SubSeq(data, off + 1, off + 2))
        val_len == FromLE(SubSeq(data, off + 3, off + 4))
    IN SubSeq(data, off + 5 + key_len, off + 4 + key_len + val_len)

\* Block::get: binary search over the offset array
RECURSIVE BlockSearch(_, _, _, _)
BlockSearch(block, target, lo, hi) ==
    IF lo >= hi THEN <<>>
    ELSE LET mid == lo + (hi - lo) \div 2
             key == BlockKeyAt(block.data, block.offsets[mid + 1])
         IN IF key = target THEN << BlockValueAt(block.data, block.offsets[mid + 1]) >>
            ELSE IF Less(key, target) THEN BlockSearch(block, target, mid + 1, hi)
            ELSE BlockSearch(block, target, lo, mid)

BlockGet(block, target) == BlockSearch(block, target, 0, Len(block.offsets))

----------------------------------------------------------------------------
(* SSTable footer, index entries and metadata *)

\* 0x4C534D5F53535400 in little-endian bytes
SSTABLE_MAGIC == << 0, 84, 83, 83, 95, 77, 83, 76 >>

\* Footer::SIZE
FOOTER_SIZE == 40

IndexEntryEncode(e) ==
    ToLE(AsU16(Len(e.last_key)), 2) \o e.last_key \o ToLE(e.offset, 8) \o ToLE(e.size, 8)

\* IndexEntry::decode: [ok, entry, consumed]
IndexEntryDecode(data) ==
    LET bad == [ ok |-> FALSE, entry |-> <<>>, consumed |-> 0 ] IN
    IF Len(data) < 2 THEN bad
    ELSE LET key_len == FromLE(SubSeq(data, 1, 2))
             total   == 2 + key_len + 16
         IN IF Len(data) < total THEN bad
            ELSE [ ok |-> TRUE,
                   entry |-> [ last_key |-> SubSeq(data, 3, 2 + key_len),
                               offset   |-> FromLE(SubSeq(data, 3 + key_len, 10 + key_len)),
                               size     |-> FromLE(SubSeq(data, 11 + key_len, 18 + key_len)) ],
                   consumed |-> total ]

FooterEncode(f) ==
    ToLE(f.index_block_offset, 8) \o ToLE(f.index_block_size, 8)
        \o ToLE(f.meta_block_offset, 8) \o ToLE(f.meta_block_size, 8) \o f.magic

\* Footer::decode: [ok, footer]
FooterDecode(data) ==
    IF Len(data) < FOOTER_SIZE \/ SubSeq(data, 33, 40) # SSTABLE_MAGIC
    THEN [ ok |-> FALSE, footer |-> <<>> ]
    ELSE [ ok |-> TRUE,
           footer |-> [ index_block_offset |-> FromLE(SubSeq(data, 1, 8)),
                        index_block_size   |-> FromLE(SubSeq(data, 9, 16)),
                        meta_block_offset  |-> FromLE(SubSeq(data, 17, 24)),
                        meta_block_size    |-> FromLE(SubSeq(data, 25, 32)),
                        magic              |-> SubSeq(data, 33, 40) ] ]

----------------------------------------------------------------------------
(* SSTable builder; writer is the bytes written to the file so far *)

SSTableBuilderNew(sst_id, block_size) ==
    [ block_builder     |-> BlockBuilderNew(block_size),
      index_entries     |-> <<>>,
      data_offset       |-> 0,
      writer            |-> <<>>,
      sst_id            |-> sst_id,
      block_size        |-> block_size,
      min_key           |-> <<>>,
      max_key           |-> <<>>,
      entry_count       |-> 0,
      last_key_in_block |-> <<>> ]

\* a flush that does not advance the offset of the next block
SSTableFlushBlock_OffsetStays(b) ==
    IF BlockIsEmpty(b.block_builder) THEN b
    ELSE LET block_data == BlockBuilderBuild(b.block_builder)
             block_size == Len(block_data)
         IN [ b EXCEPT
                !.block_builder     = BlockBuilderNew(b.block_size),
                !.writer            = @ \o block_data,
                !.index_entries     = Append(@, [ last_key |-> b.last_key_in_block[1],
                                                  offset   |-> b.data_offset,
                                                  size     |-> block_size ]),
                !.last_key_in_block = <<>> ]

SSTableFlushBlock(b) ==
    IF BlockIsEmpty(b.block_builder) THEN b
    ELSE LET block_data == BlockBuilderBuild(b.block_builder)
             block_size == Len(block_data)
         IN [ b EXCEPT
                !.block_builder     = BlockBuilderNew(b.block_size),
                !.writer            = @ \o block_data,
                !.index_entries     = Append(@, [ last_key |-> b.last_key_in_block[1],
                                                  offset   |-> b.data_offset,
                                                  size     |-> block_size ]),
                !.last_key_in_block = <<>>,
                !.data_offset       = @ + block_size ]

\* an add that takes every key as the smallest so far
SSTableBuilderAdd_MinKeyFollows(b, key, value) ==
    LET b1 == [ b EXCEPT !.min_key = << key >>,
                         !.max_key = << key >>,
                         !.entry_count = @ + 1 ]
        r  == BlockBuilderAdd(b1.block_builder, key, value)
    IN IF r.ok
       THEN [ b1 EXCEPT !.block_builder = r.bb, !.last_key_in_block = << key >> ]
       ELSE LET b2 == SSTableFlushBlock(b1) IN
            [ b2 EXCEPT !.block_builder = BlockBuilderAdd(b2.block_builder, key, value).bb,
                        !.last_key_in_block = << key >> ]

SSTableBuilderAdd(b, key, value) ==
    LET b1 == [ b EXCEPT !.min_key = IF @ = <<>> THEN << key >> ELSE @,
                         !.max_key = << key >>,
                         !.entry_count = @ + 1 ]
        r  == BlockBuilderAdd(b1.block_builder, key, value)
    IN IF r.ok
       THEN [ b1 EXCEPT !.block_builder = r.bb, !.last_key_in_block = << key >> ]
       ELSE LET b2 == SSTableFlushBlock(b1) IN
            [ b2 EXCEPT !.block_builder = BlockBuilderAdd(b2.block_builder, key, value).bb,
                        !.last_key_in_block = << key >> ]

RECURSIVE IndexBytes(_)
IndexBytes(entries) ==
    IF entries = <<>> THEN <<>>
    ELSE IndexEntryEncode(entries[1]) \o IndexBytes(Tail(entries))

\* finish: [file, meta]; the meta block is an empty placeholder
SSTableBuilderFinish(b) ==
    LET b1                 == SSTableFlushBlock(b)
        meta_block_offset  == b1.data_offset
        meta_block_size    == 0
        index_block_offset == b1.data_offset
        index_data         == IndexBytes(b1.index_entries)
        index_block_size   == Len(index_data)
        footer == [ index_block_offset |-> index_block_offset,
                    index_block_size   |-> index_block_size,
                    meta_block_offset  |-> meta_block_offset,
                    meta_block_size    |-> meta_block_size,
                    magic              |-> SSTABLE_MAGIC ]
    IN [ file |-> b1.writer \o index_data \o FooterEncode(footer),
         meta |-> [ id          |-> b1.sst_id,
                    level       |-> 0,
                    min_key     |-> IF b1.min_key = <<>> THEN <<>> ELSE b1.min_key[1],
                    max_key     |-> IF b1.max_key = <<>> THEN <<>> ELSE b1.max_key[1],
                    file_size   |-> index_block_offset + index_block_size + FOOTER_SIZE,
                    entry_count |-> b1.entry_count ] ]

----------------------------------------------------------------------------
(* SSTable reader *)

\* the loop of open that parses the index block: [ok, index]
RECURSIVE ParseIndex(_, _)
ParseIndex(index_buf, index) ==
    IF index_buf = <<>> THEN [ ok |-> TRUE, index |-> index ]
    ELSE LET d == IndexEntryDecode(index_buf) IN
         IF ~d.ok THEN [ ok |-> FALSE, index |-> <<>> ]
         ELSE ParseIndex(SubSeq(index_buf, d.consumed + 1, Len(index_buf)),
                         Append(index, d.entry))

\* parse_meta: id(8) level(4) min_key_len(4) min_key max_key_len(4) max_key entry_count(8)
ParseMeta(data, file_size) ==
    LET bad == [ ok |-> FALSE, meta |-> <<>> ] IN
    IF Len(data) < 16 THEN bad
    ELSE LET min_key_len == FromLE(SubSeq(data, 13, 16)) IN
         IF Len(data) < 16 + min_key_len + 4 THEN bad
         ELSE LET o1          == 16 + min_key_len
                  max_key_len == FromLE(SubSeq(data, o1 + 1, o1 + 4))
              IN IF Len(data) < o1 + 4 + max_key_len + 8 THEN bad
                 ELSE LET o2 == o1 + 4 + max_key_len IN
                      [ ok |-> TRUE,
                        meta |-> [ id          |-> FromLE(SubSeq(data, 1, 8)),
                                   level       |-> FromLE(SubSeq(data, 9, 12)),
                                   min_key     |-> SubSeq(data, 17, o1),
                                   max_key     |-> SubSeq(data, o1 + 5, o2),
                                   file_size   |-> file_size,
                                   entry_count |-> FromLE(SubSeq(data, o2 + 1, o2 + 8)) ] ]

\* SSTable::open: [ok, index, meta, footer]
SSTableOpen(file) ==
    LET bad == [ ok |-> FALSE, index |-> <<>>, meta |-> <<>>, footer |-> <<>> ]
        file_size == Len(file)
    IN IF file_size < FOOTER_SIZE THEN bad
       ELSE LET f == FooterDecode(SubSeq(file, file_size - FOOTER_SIZE + 1, file_size)) IN
       IF ~f.ok THEN bad
       ELSE LET index_buf == ReadExact(file, f.footer.index_block_offset,
                                       f.footer.index_block_size) IN
       IF ~index_buf.ok THEN bad
       ELSE LET ix == ParseIndex(index_buf.bytes, <<>>) IN
       IF ~ix.ok THEN bad
       ELSE LET meta_buf == ReadExact(file, f.footer.meta_block_offset,
                                      f.footer.meta_block_size) IN
       IF ~meta_buf.ok THEN bad
       ELSE LET m == IF meta_buf.bytes = <<>>
                     THEN [ ok |-> TRUE,
                            meta |-> [ id |-> 0, level |-> 0, min_key |-> <<>>,
                                       max_key |-> <<>>, file_size |-> file_size,
                                       entry_count |-> 0 ] ]
                     ELSE ParseMeta(meta_buf.bytes, file_size) IN
       IF ~m.ok THEN bad
       ELSE [ ok |-> TRUE, index |-> ix.index, meta |-> m.meta, footer |-> f.footer ]

\* slice::binary_search_by over the index, comparing last_key with key:
\* [found, idx], idx the insertion point when not found
RECURSIVE IndexBinarySearch(_, _, _, _)
IndexBinarySearch(index, key, left, right) ==
    IF left >= right THEN [ found |-> FALSE, idx |-> left ]
    ELSE LET mid      == left + (right - left) \div 2
             last_key == index[mid + 1].last_key
         IN IF Less(last_key, key) THEN IndexBinarySearch(index, key, mid + 1, right)
            ELSE IF Less(key, last_key) THEN IndexBinarySearch(index, key, left, mid)
            ELSE [ found |-> TRUE, idx |-> mid ]

\* SSTable::get: [err, val]
SSTableGet(table, file, key) ==
    IF Less(key, table.meta.min_key) \/ Less(table.meta.max_key, key)
    THEN [ err |-> FALSE, val |-> <<>> ]
    ELSE LET r == IndexBinarySearch(table.index, key, 0, Len(table.index)) IN
         IF ~r.found /\ r.idx >= Len(table.index) THEN [ err |-> FALSE, val |-> <<>> ]
         ELSE LET entry      == table.index[r.idx + 1]
                  block_data == ReadExact(file, entry.offset, entry.size)
              IN IF ~block_data.ok THEN [ err |-> TRUE, val |-> <<>> ]
                 ELSE LET block == BlockDecode(block_data.bytes) IN
                      IF ~block.ok THEN [ err |-> TRUE, val |-> <<>> ]
                      ELSE [ err |-> FALSE, val |-> BlockGet(block, key) ]

----------------------------------------------------------------------------
(* Building an SSTable, opening it and reading it *)

\* entries added to one SSTable
MaxSstEntries == 3

SstKeys     == { <<>>, <<1>>, <<1, 1>>, <<2>> }
SstValues   == { <<7>>, <<8, 9>> }
SstIds      == { 42 }
\* the small one holds one or two of the model's entries per block
BlockSizes  == { 14, 4096 }

SstNone == [ phase |-> "none", builder |-> <<>>, added |-> <<>>, file |-> <<>>,
             meta |-> <<>>, table |-> <<>>, got |-> <<>> ]

InitSst == MgrIdle /\ BloomIdle /\ MergeIdle /\ ConcIdle /\ WalIdle /\ NewIdle /\ sst = SstNone

\* SSTableBuilder::new
SstNew(id, block_size) ==
    /\ sst.phase = "none"
    /\ sst' = [ sst EXCEPT !.phase = "building",
                           !.builder = SSTableBuilderNew(id, block_size) ]
    /\ UNCHANGED <<mgr, call, hist, thr, lock, wlog, wal, mem, ww, wm, sl, cur, mi, rc, blk, bf, mg>>

\* SSTableBuilder::add; added is the list of the entries given so far
SstAdd(k, v) ==
    /\ sst.phase = "building"
    /\ Len(sst.added) < MaxSstEntries
    /\ sst' = [ sst EXCEPT !.builder = SSTableBuilderAdd(sst.builder, k, v),
                           !.added = Append(@, << k, v >>) ]
    /\ UNCHANGED <<mgr, call, hist, thr, lock, wlog, wal, mem, ww, wm, sl, cur, mi, rc, blk, bf, mg>>

\* SSTableBuilder::finish
SstFinish ==
    /\ sst.phase = "building"
    /\ LET r == SSTableBuilderFinish(sst.builder) IN
       sst' = [ sst EXCEPT !.phase = "finished", !.builder = <<>>,
                           !.file = r.file, !.meta = r.meta ]
    /\ UNCHANGED <<mgr, call, hist, thr, lock, wlog, wal, mem, ww, wm, sl, cur, mi, rc, blk, bf, mg>>

\* SSTable::open on the finished file
SstOpen ==
    /\ sst.phase = "finished"
    /\ LET t == SSTableOpen(sst.file) IN
       sst' = [ sst EXCEPT !.phase = IF t.ok THEN "opened" ELSE "open_failed",
                           !.table = t ]
    /\ UNCHANGED <<mgr, call, hist, thr, lock, wlog, wal, mem, ww, wm, sl, cur, mi, rc, blk, bf, mg>>

\* SSTable::get; got is the key asked for and the answer
SstGet(k) ==
    /\ sst.phase = "opened"
    /\ sst' = [ sst EXCEPT !.got = << [ key |-> k, res |-> SSTableGet(sst.table, sst.file, k) ] >> ]
    /\ UNCHANGED <<mgr, call, hist, thr, lock, wlog, wal, mem, ww, wm, sl, cur, mi, rc, blk, bf, mg>>

NextSst ==
    \/ \E id \in SstIds, bs \in BlockSizes : SstNew(id, bs)
    \/ \E k \in SstKeys, v \in SstValues : SstAdd(k, v)
    \/ SstFinish
    \/ SstOpen
    \/ \E k \in SstKeys : SstGet(k)

SpecSst == InitSst /\ [][NextSst]_vars

\* the keys of the added entries are strictly ascending
StrictlyAscending(entries) ==
    \A i \in 1..(Len(entries) - 1) : Less(entries[i][1], entries[i + 1][1])

\* the value added for key, if any
AddedValue(entries, key) ==
    IF \E i \in 1..Len(entries) : entries[i][1] = key
    THEN << entries[CHOOSE i \in 1..Len(entries) : entries[i][1] = key][2] >>
    ELSE <<>>

\* C1: after adds in strictly ascending key order and finish, open succeeds and
\* get(k) returns the added value for an added key and absent for any other key.
C1_GetReturnsWhatWasAdded ==
    /\ (sst.phase = "open_failed") => ~StrictlyAscending(sst.added)
    /\ (sst.phase = "opened" /\ sst.got # <<>> /\ StrictlyAscending(sst.added))
         => /\ ~sst.got[1].res.err
            /\ sst.got[1].res.val = AddedValue(sst.added, sst.got[1].key)

----------------------------------------------------------------------------
(* WAL record codec *)

\* RecordType
Put    == 1
Delete == 2

CRC_SIZE     == 4
LEN_SIZE     == 4
TYPE_SIZE    == 1
KEY_LEN_SIZE == 4
HEADER_SIZE  == CRC_SIZE + LEN_SIZE + TYPE_SIZE + KEY_LEN_SIZE

WALRecordPut(key, value) == [ record_type |-> Put, key |-> key, value |-> value ]
WALRecordDelete(key)     == [ record_type |-> Delete, key |-> key, value |-> <<>> ]

\* crc32fast::hash, an external crate: modelled as a 4-byte digest of the bytes
\* that depends on every byte and on its position, compared byte by byte
RECURSIVE CrcFold(_, _)
CrcFold(bytes, acc) ==
    IF bytes = <<>> THEN acc
    ELSE CrcFold(Tail(bytes), (acc * 31 + bytes[1] + 1) % 16777213)

Crc32(bytes) == ToLE(CrcFold(bytes, 1), CRC_SIZE)

\* an encode whose payload_len leaves out the type byte
WALRecordEncode_LenWithoutType(r) ==
    LET payload_len == KEY_LEN_SIZE + Len(r.key) + Len(r.value)
        body == ToLE(payload_len, LEN_SIZE) \o << r.record_type >>
                    \o ToLE(Len(r.key), KEY_LEN_SIZE) \o r.key \o r.value
    IN Crc32(body) \o body

WALRecordEncode(r) ==
    LET payload_len == TYPE_SIZE + KEY_LEN_SIZE + Len(r.key) + Len(r.value)
        body == ToLE(payload_len, LEN_SIZE) \o << r.record_type >>
                    \o ToLE(Len(r.key), KEY_LEN_SIZE) \o r.key \o r.value
    IN Crc32(body) \o body

\* an encoded_size that leaves out the type byte
WALRecordEncodedSize_WithoutType(r) ==
    CRC_SIZE + LEN_SIZE + KEY_LEN_SIZE + Len(r.key) + Len(r.value)

WALRecordEncodedSize(r) == HEADER_SIZE + Len(r.key) + Len(r.value)

\* decode: [ok, record]
WALRecordDecode(data) ==
    LET bad == [ ok |-> FALSE, record |-> <<>> ] IN
    IF Len(data) < HEADER_SIZE THEN bad
    ELSE LET stored_crc  == SubSeq(data, 1, 4)
             payload_len == FromLE(SubSeq(data, 5, 8))
             total_len   == CRC_SIZE + LEN_SIZE + payload_len
         IN IF Len(data) < total_len THEN bad
            ELSE IF stored_crc # Crc32(SubSeq(data, CRC_SIZE + 1, total_len)) THEN bad
            ELSE IF data[9] \notin { Put, Delete } THEN bad
            ELSE LET key_len == FromLE(SubSeq(data, 10, 13))
                     offset  == HEADER_SIZE
                 IN IF offset + key_len > total_len THEN bad
                    ELSE [ ok |-> TRUE,
                           record |-> [ record_type |-> data[9],
                                        key   |-> SubSeq(data, offset + 1, offset + key_len),
                                        value |-> SubSeq(data, offset + key_len + 1, total_len) ] ]

----------------------------------------------------------------------------
(* WAL reader *)

\* a next() that hands the decode error to the caller as an item
WALIteratorNext_YieldsErr(data, offset) ==
    IF offset >= Len(data) THEN [ item |-> <<>>, offset |-> offset ]
    ELSE LET d == WALRecordDecode(SubSeq(data, offset + 1, Len(data))) IN
         IF d.ok
         THEN [ item |-> << [ ok |-> TRUE, record |-> d.record ] >>,
                offset |-> offset + WALRecordEncodedSize(d.record) ]
         ELSE [ item |-> << [ ok |-> FALSE, record |-> <<>> ] >>, offset |-> offset ]

\* a next() that looks for the next place where a record decodes
WALIteratorNext_Resyncs(data, offset) ==
    LET good == { o \in offset..Len(data) :
                    o < Len(data) /\ WALRecordDecode(SubSeq(data, o + 1, Len(data))).ok }
    IN IF good = {} THEN [ item |-> <<>>, offset |-> offset ]
       ELSE LET o == CHOOSE x \in good : \A y \in good : x <= y
                d == WALRecordDecode(SubSeq(data, o + 1, Len(data)))
            IN [ item |-> << [ ok |-> TRUE, record |-> d.record ] >>,
                 offset |-> o + WALRecordEncodedSize(d.record) ]

\* WALIterator::next on [data, offset]: [item, offset]; item is None (<<>>), or
\* Some of a Result: [ok, record]
WALIteratorNext(data, offset) ==
    IF offset >= Len(data) THEN [ item |-> <<>>, offset |-> offset ]
    ELSE LET d == WALRecordDecode(SubSeq(data, offset + 1, Len(data))) IN
         IF d.ok
         THEN [ item |-> << [ ok |-> TRUE, record |-> d.record ] >>,
                offset |-> offset + WALRecordEncodedSize(d.record) ]
         ELSE [ item |-> <<>>, offset |-> offset ]

----------------------------------------------------------------------------
(* A WAL file that is written, then truncated or corrupted, then read *)

\* records written to one WAL file
MaxWalRecords == 3
\* calls of next() made after it has returned None
MaxEndCalls == 2

WalRecords == { WALRecordPut(<<1>>, <<5>>), WALRecordPut(<<2, 1>>, <<>>), WALRecordDelete(<<1>>) }

WalNone == [ phase |-> "writing", written |-> <<>>, file |-> <<>>,
             damage |-> [ kind |-> "none", at |-> 0 ],
             data |-> <<>>, offset |-> 0, yielded |-> <<>>, ends |-> 0 ]

InitWal == MgrIdle /\ BloomIdle /\ MergeIdle /\ ConcIdle /\ SstIdle /\ NewIdle /\ wal = WalNone

\* the file gets the encoding of one more record
WalWrite(r) ==
    /\ wal.phase = "writing"
    /\ Len(wal.written) < MaxWalRecords
    /\ wal' = [ wal EXCEPT !.written = Append(@, r), !.file = @ \o WALRecordEncode(r) ]
    /\ UNCHANGED <<mgr, call, hist, thr, lock, wlog, sst, mem, ww, wm, sl, cur, mi, rc, blk, bf, mg>>

\* File::set_len: the file is cut to its first L bytes
WalTruncate(L) ==
    /\ wal.phase = "writing"
    /\ L \in 0..Len(wal.file)
    /\ wal' = [ wal EXCEPT !.phase = "damaged", !.file = SubSeq(@, 1, L),
                           !.damage = [ kind |-> "truncate", at |-> L ] ]
    /\ UNCHANGED <<mgr, call, hist, thr, lock, wlog, sst, mem, ww, wm, sl, cur, mi, rc, blk, bf, mg>>

\* byte b with bit number bit flipped
FlipBit(b, bit) ==
    LET p == IF bit = 0 THEN 1 ELSE IF bit = 1 THEN 2 ELSE IF bit = 2 THEN 4
             ELSE IF bit = 3 THEN 8 ELSE IF bit = 4 THEN 16 ELSE IF bit = 5 THEN 32
             ELSE IF bit = 6 THEN 64 ELSE 128
    IN IF (b \div p) % 2 = 1 THEN b - p ELSE b + p

\* one bit of the byte at position pos (from 1) of the file is flipped
WalFlip(pos, bit) ==
    /\ wal.phase = "writing"
    /\ pos \in 1..Len(wal.file)
    /\ wal' = [ wal EXCEPT !.phase = "damaged",
                           !.file[pos] = FlipBit(@, bit),
                           !.damage = [ kind |-> "corrupt", at |-> pos ] ]
    /\ UNCHANGED <<mgr, call, hist, thr, lock, wlog, sst, mem, ww, wm, sl, cur, mi, rc, blk, bf, mg>>

\* WALReader::new and iter(): the whole file is loaded, the iterator starts at 0
WalOpen ==
    /\ wal.phase \in { "writing", "damaged" }
    /\ wal' = [ wal EXCEPT !.phase = "reading", !.data = wal.file, !.offset = 0 ]
    /\ UNCHANGED <<mgr, call, hist, thr, lock, wlog, sst, mem, ww, wm, sl, cur, mi, rc, blk, bf, mg>>

\* one call of next(); yielded collects the items, ends counts the None returns
WalNext ==
    /\ wal.phase = "reading"
    /\ wal.ends < MaxEndCalls
    /\ LET n == WALIteratorNext(wal.data, wal.offset) IN
       wal' = [ wal EXCEPT !.offset  = n.offset,
                           !.yielded = @ \o n.item,
                           !.ends    = IF n.item = <<>> THEN @ + 1 ELSE @ ]
    /\ UNCHANGED <<mgr, call, hist, thr, lock, wlog, sst, mem, ww, wm, sl, cur, mi, rc, blk, bf, mg>>

NextWal ==
    \/ \E r \in WalRecords : WalWrite(r)
    \/ \E L \in 0..(MaxWalRecords * 16) : WalTruncate(L)
    \/ \E pos \in 1..(MaxWalRecords * 16), bit \in 0..7 : WalFlip(pos, bit)
    \/ WalOpen
    \/ WalNext

SpecWal == InitWal /\ [][NextWal]_vars

----------------------------------------------------------------------------
(* Claims about the WAL reader *)

\* the records as the Ok items an iterator yields for them
RECURSIVE OkItems(_)
OkItems(records) ==
    IF records = <<>> THEN <<>>
    ELSE << [ ok |-> TRUE, record |-> records[1] ] >> \o OkItems(Tail(records))

\* the number of bytes the encodings of the first j records take
RECURSIVE EncodedBytes(_, _)
EncodedBytes(records, j) ==
    IF j = 0 THEN 0 ELSE EncodedBytes(records, j - 1) + Len(WALRecordEncode(records[j]))

\* the largest j such that the encodings of the first j records fit in L bytes
FitCount(records, L) ==
    CHOOSE j \in 0..Len(records) :
        /\ EncodedBytes(records, j) <= L
        /\ j < Len(records) => EncodedBytes(records, j + 1) > L

\* the number of the record that holds the byte at position pos of the file
RecordAt(records, pos) ==
    CHOOSE i \in 1..Len(records) :
        EncodedBytes(records, i - 1) < pos /\ pos <= EncodedBytes(records, i)

\* C9: the reader over a file cut to L bytes yields Ok items only, always a prefix
\* of the written records, and when it ends it has yielded exactly the records
\* whose encodings fit in the first L bytes.
C9_TruncationYieldsFittingPrefix ==
    (wal.phase = "reading" /\ wal.damage.kind \in { "none", "truncate" })
    => LET j == FitCount(wal.written, Len(wal.data)) IN
       /\ Len(wal.yielded) <= j
       /\ wal.yielded = OkItems(SubSeq(wal.written, 1, Len(wal.yielded)))
       /\ wal.ends > 0 => Len(wal.yielded) = j

\* a file of three records cut inside the third: the reader has ended after two
C9_Witness ==
    /\ wal.phase = "reading"
    /\ wal.damage.kind = "truncate"
    /\ Len(wal.written) = 3
    /\ EncodedBytes(wal.written, 2) < wal.damage.at
    /\ wal.damage.at < EncodedBytes(wal.written, 3)
    /\ wal.ends > 0
    /\ Len(wal.yielded) = 2

\* the bit flip hit record i and what is stored at the place of record i does not decode
CorruptRecord(i) ==
    /\ wal.damage.kind = "corrupt"
    /\ i = RecordAt(wal.written, wal.damage.at)
    /\ ~WALRecordDecode(SubSeq(wal.data, EncodedBytes(wal.written, i - 1) + 1,
                               Len(wal.data))).ok

\* C10: when the i-th record does not decode, the iterator yields no Err item and
\* nothing but the i-1 records before it, and once it has ended, further calls
\* yield nothing more.
C10_CorruptionEndsIteration ==
    (wal.phase = "reading" /\ wal.damage.kind = "corrupt")
    => LET i     == RecordAt(wal.written, wal.damage.at)
           start == EncodedBytes(wal.written, i - 1)
       IN ~WALRecordDecode(SubSeq(wal.data, start + 1, Len(wal.data))).ok
          => /\ Len(wal.yielded) <= i - 1
             /\ wal.yielded = OkItems(SubSeq(wal.written, 1, Len(wal.yielded)))
             /\ wal.ends > 0 => Len(wal.yielded) = i - 1

\* the second of three records is corrupt, the third intact: next() has returned
\* None twice after yielding the first record alone
C10_Witness ==
    /\ wal.phase = "reading"
    /\ Len(wal.written) = 3
    /\ CorruptRecord(2)
    /\ wal.ends = MaxEndCalls
    /\ Len(wal.yielded) = 1

----------------------------------------------------------------------------
(* WAL writer *)

\* SyncPolicy: EveryWrite, EveryNWrites(n), EveryNMillis(n)
EveryWrite      == [ kind |-> "EveryWrite", n |-> 0 ]
EveryNWrites(n) == [ kind |-> "EveryNWrites", n |-> n ]
EveryNMillis(n) == [ kind |-> "EveryNMillis", n |-> n ]

\* a file: the bytes the kernel holds for it (what a reader sees) and the bytes
\* that have reached the disk (what survives a crash)
FileNew == [ file |-> <<>>, disk |-> <<>> ]

\* File::sync_all: done, or failed with an I/O error
SyncAll(f, sync_ok) == IF sync_ok THEN [ f EXCEPT !.disk = f.file ] ELSE f

\* BufWriter::flush: the buffered bytes go to the kernel
Flush(w, f) == [ w |-> [ w EXCEPT !.buf = <<>> ], f |-> [ f EXCEPT !.file = @ \o w.buf ] ]

\* WALWriter::new on a path: the file is opened for append, the offset starts at 0
WALWriterNew(sync_policy) ==
    [ buf |-> <<>>, offset |-> 0, sync_policy |-> sync_policy, writes_since_sync |-> 0 ]

\* an append that takes EveryWrite for a batch of two
WALWriterAppend_BatchesEveryWrite(w, f, record, sync_ok) ==
    LET encoded == WALRecordEncode(record)
        fl == Flush([ w EXCEPT !.buf = @ \o encoded ], f)
        w1 == [ fl.w EXCEPT !.offset = @ + Len(encoded), !.writes_since_sync = @ + 1 ]
        due == w1.writes_since_sync >= (IF w.sync_policy.kind = "EveryWrite" THEN 2
                                        ELSE w.sync_policy.n)
    IN IF w.sync_policy.kind # "EveryNMillis" /\ due
       THEN [ w |-> IF sync_ok THEN [ w1 EXCEPT !.writes_since_sync = 0 ] ELSE w1,
              f |-> SyncAll(fl.f, sync_ok), ok |-> sync_ok, issued |-> TRUE ]
       ELSE [ w |-> [ w1 EXCEPT !.writes_since_sync =
                          IF w.sync_policy.kind = "EveryWrite" THEN 0 ELSE @ ],
              f |-> fl.f, ok |-> TRUE, issued |-> FALSE ]

\* an append that syncs when the counter exceeds n
WALWriterAppend_SyncsAboveN(w, f, record, sync_ok) ==
    LET encoded == WALRecordEncode(record)
        fl == Flush([ w EXCEPT !.buf = @ \o encoded ], f)
        w1 == [ fl.w EXCEPT !.offset = @ + Len(encoded), !.writes_since_sync = @ + 1 ]
        due == \/ w.sync_policy.kind = "EveryWrite"
               \/ w.sync_policy.kind = "EveryNWrites" /\ w1.writes_since_sync > w.sync_policy.n
    IN IF due
       THEN [ w |-> IF sync_ok THEN [ w1 EXCEPT !.writes_since_sync = 0 ] ELSE w1,
              f |-> SyncAll(fl.f, sync_ok), ok |-> sync_ok, issued |-> TRUE ]
       ELSE [ w |-> w1, f |-> fl.f, ok |-> TRUE, issued |-> FALSE ]

\* WALWriter::append: [w, f, ok, issued]; issued tells whether sync_all was called
WALWriterAppend(w, f, record, sync_ok) ==
    LET encoded == WALRecordEncode(record)
        fl == Flush([ w EXCEPT !.buf = @ \o encoded ], f)
        w1 == [ fl.w EXCEPT !.offset = @ + Len(encoded), !.writes_since_sync = @ + 1 ]
        due == \/ w.sync_policy.kind = "EveryWrite"
               \/ w.sync_policy.kind = "EveryNWrites" /\ w1.writes_since_sync >= w.sync_policy.n
    IN IF due
       THEN [ w |-> IF sync_ok THEN [ w1 EXCEPT !.writes_since_sync = 0 ] ELSE w1,
              f |-> SyncAll(fl.f, sync_ok), ok |-> sync_ok, issued |-> TRUE ]
       ELSE [ w |-> w1, f |-> fl.f, ok |-> TRUE, issued |-> FALSE ]

\* a sync that leaves the counter as it is
WALWriterSync_KeepsCounter(w, f, sync_ok) ==
    LET fl == Flush(w, f) IN
    [ w |-> fl.w, f |-> SyncAll(fl.f, sync_ok), ok |-> sync_ok, issued |-> TRUE ]

\* WALWriter::sync: [w, f, ok, issued]
WALWriterSync(w, f, sync_ok) ==
    LET fl == Flush(w, f) IN
    [ w |-> IF sync_ok THEN [ fl.w EXCEPT !.writes_since_sync = 0 ] ELSE fl.w,
      f |-> SyncAll(fl.f, sync_ok), ok |-> sync_ok, issued |-> TRUE ]

\* WALReader::new(path).iter() run to its end: the items it yields
RECURSIVE ReadFrom(_, _)
ReadFrom(data, offset) ==
    LET n == WALIteratorNext(data, offset) IN
    IF n.item = <<>> THEN <<>> ELSE n.item \o ReadFrom(data, n.offset)

ReadAll(data) == ReadFrom(data, 0)

----------------------------------------------------------------------------
(* One WALWriter on a new file: appends, syncs, a crash, a reader *)

\* appends and syncs made through one writer
MaxWriterOps == 4
\* the n of EveryNWrites(n) ranges over 0..MaxSyncN
MaxSyncN == 2

SyncPolicies == { EveryWrite, EveryNMillis(1000) } \cup { EveryNWrites(n) : n \in 0..MaxSyncN }

WriterRecords == { WALRecordPut(<<1>>, <<5>>), WALRecordDelete(<<2>>) }

WwNone == [ phase |-> "none" ]

InitWriter == MoreIdle /\ MgrIdle /\ BloomIdle /\ MergeIdle /\ ConcIdle /\ SstIdle /\ WalIdle /\ MemIdle /\ WalMgrIdle /\ ww = WwNone

\* WALWriter::new(path, policy) on a path that does not exist
WwNew(policy) ==
    /\ ww.phase = "none"
    /\ ww' = [ phase |-> "open", w |-> WALWriterNew(policy), f |-> FileNew,
               written |-> <<>>, acked |-> 0, ops |-> 0, failed |-> FALSE, crashed |-> FALSE,
               last |-> [ op |-> "new", ok |-> TRUE, issued |-> FALSE, before |-> 0 ],
               read |-> <<>> ]
    /\ UNCHANGED <<mgr, call, hist, thr, lock, wlog, sst, wal, mem, wm, sl, cur, mi, rc, blk, bf, mg>>

\* writer.append(&record); written lists the records handed to append, acked
\* counts them up to the last append that returned Ok
WwAppend(record, sync_ok) ==
    /\ ww.phase = "open"
    /\ ww.ops < MaxWriterOps
    /\ LET r == WALWriterAppend(ww.w, ww.f, record, sync_ok) IN
       ww' = [ ww EXCEPT !.w = r.w, !.f = r.f,
                         !.written = Append(@, record),
                         !.acked = IF r.ok THEN Len(ww.written) + 1 ELSE @,
                         !.ops = @ + 1,
                         !.failed = @ \/ ~r.ok,
                         !.last = [ op |-> "append", ok |-> r.ok, issued |-> r.issued,
                                    before |-> ww.w.writes_since_sync ] ]
    /\ UNCHANGED <<mgr, call, hist, thr, lock, wlog, sst, wal, mem, wm, sl, cur, mi, rc, blk, bf, mg>>

\* writer.sync()
WwSync(sync_ok) ==
    /\ ww.phase = "open"
    /\ ww.ops < MaxWriterOps
    /\ LET r == WALWriterSync(ww.w, ww.f, sync_ok) IN
       ww' = [ ww EXCEPT !.w = r.w, !.f = r.f,
                         !.ops = @ + 1,
                         !.failed = @ \/ ~r.ok,
                         !.last = [ op |-> "sync", ok |-> r.ok, issued |-> r.issued,
                                    before |-> ww.w.writes_since_sync ] ]
    /\ UNCHANGED <<mgr, call, hist, thr, lock, wlog, sst, wal, mem, wm, sl, cur, mi, rc, blk, bf, mg>>

\* a crash: the file keeps what had reached the disk and any part of what had not
WwCrash(L) ==
    /\ ww.phase = "open"
    /\ L \in Len(ww.f.disk)..Len(ww.f.file)
    /\ ww' = [ ww EXCEPT !.phase = "closed", !.crashed = TRUE,
                         !.f = [ file |-> SubSeq(ww.f.file, 1, L), disk |-> SubSeq(ww.f.file, 1, L) ] ]
    /\ UNCHANGED <<mgr, call, hist, thr, lock, wlog, sst, wal, mem, wm, sl, cur, mi, rc, blk, bf, mg>>

\* WALReader::new(path) and its iterator run to the end
WwRead ==
    /\ ww.phase \in { "open", "closed" }
    /\ ww' = [ ww EXCEPT !.phase = "read", !.read = << ReadAll(ww.f.file) >> ]
    /\ UNCHANGED <<mgr, call, hist, thr, lock, wlog, sst, wal, mem, wm, sl, cur, mi, rc, blk, bf, mg>>

NextWriter ==
    \/ \E policy \in SyncPolicies : WwNew(policy)
    \/ \E record \in WriterRecords, sync_ok \in BOOLEAN : WwAppend(record, sync_ok)
    \/ \E sync_ok \in BOOLEAN : WwSync(sync_ok)
    \/ \E L \in 0..(MaxWriterOps * 16) : WwCrash(L)
    \/ WwRead

SpecWriter == InitWriter /\ [][NextWriter]_vars

----------------------------------------------------------------------------
(* One WALWriter on a path that may hold a file already, and its offset *)

\* WALWriter::offset
WALWriterOffset(w) == w.offset

\* what the path holds when the writer is made: nothing, one record, three bytes
WwExisting == { <<>>, WALRecordEncode(WALRecordPut(<<1>>, <<5>>)), << 7, 7, 7 >> }

InitOffset == InitWriter

\* WALWriter::new(path, policy): the file is opened for appending, created when
\* missing; pre is what it holds already, all of it on disk
WwNewOn(policy, pre) ==
    /\ ww.phase = "none"
    /\ ww' = [ phase |-> "open", w |-> WALWriterNew(policy),
               f |-> [ file |-> pre, disk |-> pre ], pre |-> pre,
               written |-> <<>>, acked |-> 0, ops |-> 0, failed |-> FALSE, crashed |-> FALSE,
               last |-> [ op |-> "new", ok |-> TRUE, issued |-> FALSE, before |-> 0 ],
               read |-> <<>> ]
    /\ UNCHANGED <<mgr, call, hist, thr, lock, wlog, sst, wal, mem, wm, sl, cur, mi, rc, blk, bf, mg>>

NextOffset ==
    \/ \E policy \in SyncPolicies, pre \in WwExisting : WwNewOn(policy, pre)
    \/ \E record \in WriterRecords, sync_ok \in BOOLEAN : WwAppend(record, sync_ok)
    \/ \E sync_ok \in BOOLEAN : WwSync(sync_ok)

SpecOffset == InitOffset /\ [][NextOffset]_vars

\* the sum of encoded_size() of the first j records
RECURSIVE EncodedSizes(_, _)
EncodedSizes(records, j) ==
    IF j = 0 THEN 0 ELSE EncodedSizes(records, j - 1) + WALRecordEncodedSize(records[j])

\* C38: offset() is 0 while the file is empty, is the number of bytes the file
\* holds after any appends, and for a writer made on a new file is the sum of
\* encoded_size() of the records appended.
C38_OffsetIsFileSize ==
    (ww.phase = "open")
    => /\ ww.f.file = <<>> => WALWriterOffset(ww.w) = 0
       /\ WALWriterOffset(ww.w) = Len(ww.f.file)
       /\ ww.pre = <<>> => WALWriterOffset(ww.w) = EncodedSizes(ww.written, Len(ww.written))

\* what holds of the offset on any path: it is the sum of encoded_size() of the
\* records appended through this writer, and the file holds that many bytes more
\* than it did when the writer was made
OffsetCountsOwnAppends ==
    (ww.phase = "open")
    => /\ WALWriterOffset(ww.w) = EncodedSizes(ww.written, Len(ww.written))
       /\ Len(ww.f.file) = Len(ww.pre) + WALWriterOffset(ww.w)

OffsetNeverDecreases ==
    [][ (ww.phase = "open" /\ ww'.phase = "open")
          => WALWriterOffset(ww'.w) >= WALWriterOffset(ww.w) ]_vars

----------------------------------------------------------------------------
(* Claims about the WAL writer *)

\* C11: under each sync policy, after records were appended through one writer on
\* a new file and sync() returned, a reader over the file yields exactly these
\* records in append order, with the same type, key and value.
C11_SyncedFileReadsBack ==
    (ww.phase = "read" /\ ~ww.crashed /\ ww.last.op = "sync" /\ ww.last.ok)
    => ww.read = << OkItems(ww.written) >>

\* three appends under EveryNMillis and a sync, read back
C11_Witness ==
    /\ ww.phase = "read" /\ ~ww.crashed
    /\ ww.w.sync_policy.kind = "EveryNMillis"
    /\ ww.last.op = "sync" /\ ww.last.ok
    /\ Len(ww.written) = 3
    /\ ww.read = << OkItems(ww.written) >>

\* C12: under EveryWrite an append that returns Ok leaves the counter at 0 and
\* every byte of the file on disk; after a crash the reader yields a prefix of the
\* appended records that holds every record up to the last acknowledged one.
C12_EveryWriteDurable ==
    (ww.phase # "none" /\ ww.w.sync_policy.kind = "EveryWrite")
    => /\ (ww.phase = "open" /\ ww.last.op = "append" /\ ww.last.ok)
            => /\ ww.last.issued
               /\ ww.w.writes_since_sync = 0
               /\ ww.f.disk = ww.f.file
       /\ ww.phase = "open" => FitCount(ww.written, Len(ww.f.disk)) >= ww.acked
       /\ (ww.phase = "read" /\ ww.crashed)
            => /\ Len(ww.read[1]) >= ww.acked
               /\ ww.read[1] = OkItems(SubSeq(ww.written, 1, Len(ww.read[1])))

\* two acknowledged appends, a third whose sync_all failed, a crash that kept
\* nothing of the third, and the reader yields the two
C12_Witness ==
    /\ ww.phase = "read" /\ ww.crashed
    /\ ww.w.sync_policy.kind = "EveryWrite"
    /\ ww.acked = 2
    /\ Len(ww.written) = 3
    /\ Len(ww.read[1]) = 2

\* C13: under EveryNWrites(n), n >= 1, an append calls sync_all exactly when it is
\* the n-th append since the last sync, the counter is 0 after it, the counter is
\* below n after every append that returned Ok, and at most n-1 acknowledged
\* records are not on disk.
C13_EveryNWritesBatches ==
    (ww.phase = "open" /\ ww.w.sync_policy.kind = "EveryNWrites" /\ ww.w.sync_policy.n >= 1)
    => LET n == ww.w.sync_policy.n IN
       /\ ww.last.op = "append"
            => /\ ww.last.issued <=> (ww.last.before + 1 >= n)
               /\ ~ww.failed => (ww.last.issued <=> (ww.last.before + 1 = n))
               /\ (ww.last.ok /\ ww.last.issued) => ww.w.writes_since_sync = 0
               /\ ww.last.ok => ww.w.writes_since_sync < n
       /\ ww.acked - FitCount(ww.written, Len(ww.f.disk)) <= n - 1
       /\ ~ww.failed => ww.w.writes_since_sync
                          = Len(ww.written) - FitCount(ww.written, Len(ww.f.disk))

\* under EveryNWrites(2): the fourth append has synced the second batch
C13_Witness ==
    /\ ww.phase = "open"
    /\ ww.w.sync_policy = EveryNWrites(2)
    /\ Len(ww.written) = 4
    /\ ww.last.op = "append" /\ ww.last.ok /\ ww.last.issued
    /\ ww.last.before = 1
    /\ ww.w.writes_since_sync = 0
    /\ ~ww.failed

\* C14: under EveryNMillis no append calls sync_all, so nothing reaches the disk
\* before a sync(); under every policy sync() empties the buffer, calls sync_all
\* and, when it returns Ok, leaves the file on disk and the counter at 0.
C14_OnlySyncSyncsUnderMillis ==
    /\ (ww.phase = "open" /\ ww.w.sync_policy.kind = "EveryNMillis")
         => /\ ww.last.op = "append" => (~ww.last.issued /\ ww.last.ok)
            /\ ww.w.writes_since_sync = Len(ww.written) - FitCount(ww.written, Len(ww.f.disk))
                 \/ ww.failed
    /\ (ww.phase = "open" /\ ww.last.op = "sync")
         => /\ ww.last.issued
            /\ ww.w.buf = <<>>
            /\ ww.last.ok => (ww.f.disk = ww.f.file /\ ww.w.writes_since_sync = 0)

\* under EveryNMillis: three appends left nothing on disk, then sync() put all there
C14_Witness ==
    /\ ww.phase = "open"
    /\ ww.w.sync_policy.kind = "EveryNMillis"
    /\ ww.last.op = "sync" /\ ww.last.ok
    /\ ww.last.before = 3
    /\ ww.w.writes_since_sync = 0
    /\ ww.f.disk = ww.f.file

----------------------------------------------------------------------------
(* WAL manager *)

\* file names are ASCII byte strings
DotWal == << 46, 119, 97, 108 >>

\* the decimal digits of n, as ASCII
RECURSIVE Digits(_)
Digits(n) == IF n < 10 THEN << 48 + n >> ELSE Digits(n \div 10) \o << 48 + (n % 10) >>

\* format!("{:06}.wal", id)
RECURSIVE ZeroPad(_, _)
ZeroPad(d, width) == IF Len(d) >= width THEN d ELSE ZeroPad(<< 48 >> \o d, width)

WalFileName(id) == ZeroPad(Digits(id), 6) \o DotWal

\* str::strip_suffix(".wal"): Some(stem) or None
StripSuffixWal(name) ==
    IF Len(name) >= 4 /\ SubSeq(name, Len(name) - 3, Len(name)) = DotWal
    THEN << SubSeq(name, 1, Len(name) - 4) >>
    ELSE <<>>

\* the value of a string of digits
RECURSIVE DigitsValue(_)
DigitsValue(d) ==
    IF d = <<>> THEN 0 ELSE 10 * DigitsValue(SubSeq(d, 1, Len(d) - 1)) + (d[Len(d)] - 48)

\* str::parse::<u64>: digits after an optional '+'; Some(value) or None
ParseU64(str) ==
    LET d == IF str # <<>> /\ str[1] = 43 THEN Tail(str) ELSE str IN
    IF d # <<>> /\ \A i \in 1..Len(d) : d[i] \in 48..57 THEN << DigitsValue(d) >> ELSE <<>>

\* a directory: names of files, and the files; a name can go while the file is open
FsOpenAppend(fs, path) ==
    IF path \in DOMAIN fs.names
    THEN [ fs |-> fs, fd |-> fs.names[path] ]
    ELSE [ fs |-> [ names  |-> fs.names @@ (path :> Len(fs.inodes) + 1),
                    inodes |-> Append(fs.inodes, FileNew) ],
           fd |-> Len(fs.inodes) + 1 ]

\* WALManager::find_max_wal_id
FindMaxWalId(fs) ==
    LET ids == { ParseU64(StripSuffixWal(name)[1])[1] :
                   name \in { x \in DOMAIN fs.names :
                                /\ StripSuffixWal(x) # <<>>
                                /\ ParseU64(StripSuffixWal(x)[1]) # <<>> } }
    IN IF ids = {} THEN 0 ELSE CHOOSE m \in ids : \A i \in ids : i <= m

\* a new that takes the highest ID found for the active file
WALManagerNew_UsesMaxId(fs, sync_policy) ==
    LET max_id == FindMaxWalId(fs)
        next_id == IF max_id = 0 THEN 1 ELSE max_id
        active_path == WalFileName(next_id)
        o == FsOpenAppend(fs, active_path)
    IN [ m |-> [ active_writer |-> WALWriterNew(sync_policy), active_fd |-> o.fd,
                 active_path |-> active_path, next_wal_id |-> next_id + 1,
                 sync_policy |-> sync_policy ],
         fs |-> o.fs ]

\* WALManager::new: [m, fs]; active_fd is the File inside the active writer
WALManagerNew(fs, sync_policy) ==
    LET max_id == FindMaxWalId(fs)
        next_id == max_id + 1
        active_path == WalFileName(next_id)
        o == FsOpenAppend(fs, active_path)
    IN [ m |-> [ active_writer |-> WALWriterNew(sync_policy), active_fd |-> o.fd,
                 active_path |-> active_path, next_wal_id |-> next_id + 1,
                 sync_policy |-> sync_policy ],
         fs |-> o.fs ]

\* a rotate that creates the new file but keeps writing to the old one
WALManagerRotate_KeepsWriter(m, fs, sync_ok, open_ok) ==
    LET sy == WALWriterSync(m.active_writer, fs.inodes[m.active_fd], sync_ok)
        fs1 == [ fs EXCEPT !.inodes[m.active_fd] = sy.f ]
    IN IF ~sy.ok
       THEN [ m |-> [ m EXCEPT !.active_writer = sy.w ], fs |-> fs1, ok |-> FALSE, path |-> <<>> ]
       ELSE LET old_path == m.active_path
                new_path == WalFileName(m.next_wal_id)
                o == FsOpenAppend(fs1, new_path)
            IN IF ~open_ok
               THEN [ m |-> [ m EXCEPT !.active_writer = sy.w ], fs |-> fs1, ok |-> FALSE,
                      path |-> <<>> ]
               ELSE
               [ m |-> [ m EXCEPT !.active_writer = sy.w,
                                  !.active_path = new_path,
                                  !.next_wal_id = @ + 1 ],
                 fs |-> o.fs, ok |-> TRUE, path |-> old_path ]

\* a rotate that returns the path of the new file
WALManagerRotate_ReturnsNewPath(m, fs, sync_ok, open_ok) ==
    LET sy == WALWriterSync(m.active_writer, fs.inodes[m.active_fd], sync_ok)
        fs1 == [ fs EXCEPT !.inodes[m.active_fd] = sy.f ]
    IN IF ~sy.ok
       THEN [ m |-> [ m EXCEPT !.active_writer = sy.w ], fs |-> fs1, ok |-> FALSE, path |-> <<>> ]
       ELSE LET new_path == WalFileName(m.next_wal_id)
                o == FsOpenAppend(fs1, new_path)
            IN IF ~open_ok
               THEN [ m |-> [ m EXCEPT !.active_writer = sy.w ], fs |-> fs1, ok |-> FALSE,
                      path |-> <<>> ]
               ELSE
               [ m |-> [ m EXCEPT !.active_writer = WALWriterNew(m.sync_policy),
                                  !.active_fd = o.fd,
                                  !.active_path = new_path,
                                  !.next_wal_id = @ + 1 ],
                 fs |-> o.fs, ok |-> TRUE, path |-> new_path ]

\* a rotate that creates the new file without syncing the old one
WALManagerRotate_NoSync(m, fs, sync_ok, open_ok) ==
    LET old_path == m.active_path
        new_path == WalFileName(m.next_wal_id)
        o == FsOpenAppend(fs, new_path)
    IN IF ~open_ok THEN [ m |-> m, fs |-> fs, ok |-> FALSE, path |-> <<>> ]
       ELSE
       [ m |-> [ m EXCEPT !.active_writer = WALWriterNew(m.sync_policy),
                          !.active_fd = o.fd,
                          !.active_path = new_path,
                          !.next_wal_id = @ + 1 ],
         fs |-> o.fs, ok |-> TRUE, path |-> old_path ]

\* a rotate that opens the new file under the ID of the active one
WALManagerRotate_ReusesId(m, fs, sync_ok, open_ok) ==
    LET sy == WALWriterSync(m.active_writer, fs.inodes[m.active_fd], sync_ok)
        fs1 == [ fs EXCEPT !.inodes[m.active_fd] = sy.f ]
    IN IF ~sy.ok
       THEN [ m |-> [ m EXCEPT !.active_writer = sy.w ], fs |-> fs1, ok |-> FALSE, path |-> <<>> ]
       ELSE LET old_path == m.active_path
                new_path == WalFileName(m.next_wal_id - 1)
                o == FsOpenAppend(fs1, new_path)
            IN IF ~open_ok
               THEN [ m |-> [ m EXCEPT !.active_writer = sy.w ], fs |-> fs1, ok |-> FALSE,
                      path |-> <<>> ]
               ELSE
               [ m |-> [ m EXCEPT !.active_writer = WALWriterNew(m.sync_policy),
                                  !.active_fd = o.fd,
                                  !.active_path = new_path,
                                  !.next_wal_id = @ + 1 ],
                 fs |-> o.fs, ok |-> TRUE, path |-> old_path ]

\* a rotate that uses up the ID when the new file cannot be created
WALManagerRotate_CountsFailedCreate(m, fs, sync_ok, open_ok) ==
    LET sy == WALWriterSync(m.active_writer, fs.inodes[m.active_fd], sync_ok)
        fs1 == [ fs EXCEPT !.inodes[m.active_fd] = sy.f ]
    IN IF ~sy.ok
       THEN [ m |-> [ m EXCEPT !.active_writer = sy.w ], fs |-> fs1, ok |-> FALSE, path |-> <<>> ]
       ELSE LET old_path == m.active_path
                new_path == WalFileName(m.next_wal_id)
                o == FsOpenAppend(fs1, new_path)
            IN IF ~open_ok
               THEN [ m |-> [ m EXCEPT !.active_writer = sy.w, !.next_wal_id = @ + 1 ],
                      fs |-> fs1, ok |-> FALSE, path |-> <<>> ]
               ELSE
               [ m |-> [ m EXCEPT !.active_writer = WALWriterNew(m.sync_policy),
                                  !.active_fd = o.fd,
                                  !.active_path = new_path,
                                  !.next_wal_id = @ + 1 ],
                 fs |-> o.fs, ok |-> TRUE, path |-> old_path ]

\* WALManager::rotate: [m, fs, ok, path]; open_ok: the new file can be created
WALManagerRotate(m, fs, sync_ok, open_ok) ==
    LET sy == WALWriterSync(m.active_writer, fs.inodes[m.active_fd], sync_ok)
        fs1 == [ fs EXCEPT !.inodes[m.active_fd] = sy.f ]
    IN IF ~sy.ok
       THEN [ m |-> [ m EXCEPT !.active_writer = sy.w ], fs |-> fs1, ok |-> FALSE, path |-> <<>> ]
       ELSE LET old_path == m.active_path
                new_path == WalFileName(m.next_wal_id)
                o == FsOpenAppend(fs1, new_path)
            IN IF ~open_ok
               THEN [ m |-> [ m EXCEPT !.active_writer = sy.w ], fs |-> fs1, ok |-> FALSE,
                      path |-> <<>> ]
               ELSE
               [ m |-> [ m EXCEPT !.active_writer = WALWriterNew(m.sync_policy),
                                  !.active_fd = o.fd,
                                  !.active_path = new_path,
                                  !.next_wal_id = @ + 1 ],
                 fs |-> o.fs, ok |-> TRUE, path |-> old_path ]

\* WALManager::delete_wal: std::fs::remove_file
DeleteWal(fs, path) ==
    IF path \in DOMAIN fs.names
    THEN [ fs |-> [ fs EXCEPT !.names = [ x \in DOMAIN fs.names \ { path } |-> fs.names[x] ] ],
           ok |-> TRUE ]
    ELSE [ fs |-> fs, ok |-> FALSE ]

----------------------------------------------------------------------------
(* One WALManager on a directory: appends, rotations, and the flushes of its caller *)

\* records appended through the manager's active writer
MaxWmAppends == 3
\* rotate() calls that return Ok
MaxRotations == 2

\* names found in the directory before the manager is constructed
Name000001Wal == << 48, 48, 48, 48, 48, 49 >> \o DotWal
Name000003Wal == << 48, 48, 48, 48, 48, 51 >> \o DotWal
Name7Wal      == << 55 >> \o DotWal
NameXWal      == << 120 >> \o DotWal
Name000009Sst == << 48, 48, 48, 48, 48, 57, 46, 115, 115, 116 >>

PreDirs == { <<>>, << Name000001Wal >>, << Name000003Wal, Name000001Wal >>,
             << NameXWal, Name000009Sst >>, << Name7Wal, Name000003Wal >> }

\* a WAL left by an earlier run
OldFile == LET b == WALRecordEncode(WALRecordPut(<<9>>, <<9>>)) IN [ file |-> b, disk |-> b ]

FsOf(names) == [ names  |-> [ x \in { names[i] : i \in 1..Len(names) } |->
                                CHOOSE i \in 1..Len(names) : names[i] = x ],
                 inodes |-> [ i \in 1..Len(names) |-> OldFile ] ]

WmPolicies == { EveryWrite, EveryNWrites(2), EveryNMillis(1000) }

WmNone == [ phase |-> "none" ]

InitWalMgr == MoreIdle /\ MgrIdle /\ BloomIdle /\ MergeIdle /\ ConcIdle /\ SstIdle /\ WalIdle /\ MemIdle /\ WriterIdle /\ wm = WmNone

\* WALManager::new(dir, policy). gens lists the files that were active and the
\* records appended to each while it was
WmNew(names, policy) ==
    /\ wm.phase = "none"
    /\ LET r == WALManagerNew(FsOf(names), policy) IN
       wm' = [ phase |-> "open", m |-> r.m, fs |-> r.fs, pre |-> names,
               gens |-> << [ path |-> r.m.active_path, fd |-> r.m.active_fd, records |-> <<>> ] >>,
               returned |-> <<>>, flushes |-> <<>>, deleted |-> {}, nrec |-> 0,
               last |-> [ op |-> "new", ok |-> TRUE ] ]
    /\ UNCHANGED <<mgr, call, hist, thr, lock, wlog, sst, wal, mem, ww, sl, cur, mi, rc, blk, bf, mg>>

\* manager.active_writer().append(&record); every record appended is different
WmAppend ==
    /\ wm.phase = "open"
    /\ wm.nrec < MaxWmAppends
    /\ LET record == WALRecordPut(<<1>>, << wm.nrec + 1 >>)
           r == WALWriterAppend(wm.m.active_writer, wm.fs.inodes[wm.m.active_fd], record, TRUE)
       IN wm' = [ wm EXCEPT !.m.active_writer = r.w,
                            !.fs.inodes[wm.m.active_fd] = r.f,
                            !.gens[Len(wm.gens)].records = Append(@, record),
                            !.nrec = @ + 1,
                            !.last = [ op |-> "append", ok |-> r.ok ] ]
    /\ UNCHANGED <<mgr, call, hist, thr, lock, wlog, sst, wal, mem, ww, sl, cur, mi, rc, blk, bf, mg>>

\* manager.active_writer().sync()
WmSync ==
    /\ wm.phase = "open"
    /\ LET r == WALWriterSync(wm.m.active_writer, wm.fs.inodes[wm.m.active_fd], TRUE) IN
       wm' = [ wm EXCEPT !.m.active_writer = r.w,
                         !.fs.inodes[wm.m.active_fd] = r.f,
                         !.last = [ op |-> "sync", ok |-> r.ok ] ]
    /\ UNCHANGED <<mgr, call, hist, thr, lock, wlog, sst, wal, mem, ww, sl, cur, mi, rc, blk, bf, mg>>

\* manager.rotate(), called when the active memtable is frozen: the path it
\* returns is kept with the flush of that memtable
WmRotate(sync_ok, open_ok) ==
    /\ wm.phase = "open"
    /\ Len(wm.returned) < MaxRotations
    /\ LET r == WALManagerRotate(wm.m, wm.fs, sync_ok, open_ok) IN
       wm' = IF r.ok
             THEN [ wm EXCEPT !.m = r.m, !.fs = r.fs,
                              !.gens = Append(@, [ path |-> r.m.active_path, fd |-> r.m.active_fd,
                                                   records |-> <<>> ]),
                              !.returned = Append(@, r.path),
                              !.flushes = Append(@, [ wal |-> r.path, durable |-> FALSE,
                                                      deleted |-> FALSE ]),
                              !.last = [ op |-> "rotate", ok |-> TRUE ] ]
             ELSE [ wm EXCEPT !.m = r.m, !.fs = r.fs,
                              !.last = [ op |-> "rotate", ok |-> FALSE, synced |-> sync_ok ] ]
    /\ UNCHANGED <<mgr, call, hist, thr, lock, wlog, sst, wal, mem, ww, sl, cur, mi, rc, blk, bf, mg>>

\* SSTableBuilder::finish has returned for the memtable of flush i: the SSTable
\* is written and synced
WmSstDurable(i) ==
    /\ wm.phase = "open"
    /\ i \in 1..Len(wm.flushes)
    /\ ~wm.flushes[i].durable
    /\ wm' = [ wm EXCEPT !.flushes[i].durable = TRUE, !.last = [ op |-> "finish", ok |-> TRUE ] ]
    /\ UNCHANGED <<mgr, call, hist, thr, lock, wlog, sst, wal, mem, ww, sl, cur, mi, rc, blk, bf, mg>>

\* the flush task deletes the WAL of flush i, after its SSTable is durable
WmDeleteWal(i) ==
    /\ wm.phase = "open"
    /\ i \in 1..Len(wm.flushes)
    /\ wm.flushes[i].durable
    /\ ~wm.flushes[i].deleted
    /\ LET r == DeleteWal(wm.fs, wm.flushes[i].wal) IN
       wm' = [ wm EXCEPT !.fs = r.fs,
                         !.flushes[i].deleted = TRUE,
                         !.deleted = IF r.ok THEN @ \cup { wm.flushes[i].wal } ELSE @,
                         !.last = [ op |-> "delete_wal", ok |-> r.ok ] ]
    /\ UNCHANGED <<mgr, call, hist, thr, lock, wlog, sst, wal, mem, ww, sl, cur, mi, rc, blk, bf, mg>>

NextWalMgr ==
    \/ \E names \in PreDirs, policy \in WmPolicies : WmNew(names, policy)
    \/ WmAppend
    \/ WmSync
    \/ \E sync_ok \in BOOLEAN, open_ok \in BOOLEAN : WmRotate(sync_ok, open_ok)
    \/ \E i \in 1..MaxRotations : WmSstDurable(i)
    \/ \E i \in 1..MaxRotations : WmDeleteWal(i)

SpecWalMgr == InitWalMgr /\ [][NextWalMgr]_vars

----------------------------------------------------------------------------
(* Claims about the WAL manager *)

\* the bytes a reader of the file at path gets
FileAt(path) == wm.fs.inodes[wm.fs.names[path]].file

\* the records of the items a reader yields
RecordsOf(items) == { items[i].record : i \in 1..Len(items) }

\* the records appended through the manager
AppendedRecords == UNION { RecordsOf(OkItems(wm.gens[g].records)) : g \in 1..Len(wm.gens) }

\* C15: the i-th rotate returns the path of the file that was active before it;
\* a reader of a file that was active yields exactly the records appended while it
\* was, in order, and no other file of the directory holds an appended record.
C15_RotationKeepsRecordsApart ==
    wm.phase = "open"
    => /\ Len(wm.returned) = Len(wm.gens) - 1
       /\ \A i \in 1..Len(wm.returned) : wm.returned[i] = wm.gens[i].path
       /\ wm.m.active_path = wm.gens[Len(wm.gens)].path
       /\ \A g \in 1..Len(wm.gens) :
            wm.gens[g].path \in DOMAIN wm.fs.names
            => ReadAll(FileAt(wm.gens[g].path)) = OkItems(wm.gens[g].records)
       /\ \A name \in DOMAIN wm.fs.names :
            (\A g \in 1..Len(wm.gens) : wm.gens[g].path # name)
            => RecordsOf(ReadAll(FileAt(name))) \cap AppendedRecords = {}

\* a record appended before a rotation and two after it, each read from its file
C15_Witness ==
    /\ wm.phase = "open"
    /\ Len(wm.gens) = 2
    /\ Len(wm.gens[1].records) = 1
    /\ Len(wm.gens[2].records) = 2
    /\ ReadAll(FileAt(wm.returned[1])) = OkItems(wm.gens[1].records)
    /\ ReadAll(FileAt(wm.m.active_path)) = OkItems(wm.gens[2].records)

\* the numeric ID in a WAL file name
WalIdOf(path) == ParseU64(StripSuffixWal(path)[1])[1]

\* the names that were in the directory before the manager was constructed
PreNames == { wm.pre[i] : i \in 1..Len(wm.pre) }

\* C16: the IDs of the files that become active strictly increase, every rotation
\* creates a path that did not exist, and the directory holds exactly the names it
\* held at construction and the files that were active, less the files given to
\* delete_wal: after k rotations without delete_wal, k+1 files of the manager.
C16_RotationIdsIncrease ==
    wm.phase = "open"
    => /\ \A i, j \in 1..Len(wm.gens) :
            i < j => WalIdOf(wm.gens[i].path) < WalIdOf(wm.gens[j].path)
       /\ \A g \in 1..Len(wm.gens) : wm.gens[g].path \notin PreNames
       /\ WalIdOf(wm.m.active_path) = wm.m.next_wal_id - 1
       /\ DOMAIN wm.fs.names
            = (PreNames \cup { wm.gens[g].path : g \in 1..Len(wm.gens) }) \ wm.deleted
       /\ Cardinality(DOMAIN wm.fs.names \ PreNames)
            = Len(wm.returned) + 1 - Cardinality(wm.deleted)
       /\ wm.last.op = "delete_wal" => wm.last.ok

\* two rotations and one delete_wal: two files of the manager are left
C16_Witness ==
    /\ wm.phase = "open"
    /\ Len(wm.returned) = 2
    /\ Cardinality(wm.deleted) = 1
    /\ Cardinality(DOMAIN wm.fs.names \ PreNames) = 2

\* C17: once rotate has returned Ok, every record appended to the old WAL is on
\* disk, whatever the sync policy.
C17_RotateSyncsOldWal ==
    wm.phase = "open"
    => \A g \in 1..(Len(wm.gens) - 1) :
         LET f == wm.fs.inodes[wm.gens[g].fd] IN
         /\ f.disk = f.file
         /\ ReadAll(f.disk) = OkItems(wm.gens[g].records)

\* under EveryNMillis, and under EveryNWrites(2) with one record: the rotated WAL
\* has its records on disk
C17_Witness ==
    /\ wm.phase = "open"
    /\ wm.m.sync_policy.kind # "EveryWrite"
    /\ Len(wm.gens) = 2
    /\ Len(wm.gens[1].records) = 1
    /\ wm.last.op = "rotate" /\ wm.last.ok
    /\ ReadAll(wm.fs.inodes[wm.gens[1].fd].disk) = OkItems(wm.gens[1].records)

\* the ID of a name found at construction: of NNNNNN.wal and of 7.wal, none of the others
PreIdOf(name) ==
    IF name = Name000001Wal THEN << 1 >>
    ELSE IF name = Name000003Wal THEN << 3 >>
    ELSE IF name = Name7Wal THEN << 7 >>
    ELSE <<>>

\* max(S) for the ID set S of the directory at construction, 0 when S is empty
PreMaxId ==
    LET S == { PreIdOf(n)[1] : n \in { x \in PreNames : PreIdOf(x) # <<>> } }
    IN IF S = {} THEN 0 ELSE CHOOSE m \in S : \A i \in S : i <= m

\* C18: the first active file has the ID max(S)+1 and did not exist, new leaves the
\* next ID at max(S)+2, and no file found at construction is ever written.
C18_NewStartsAboveExisting ==
    wm.phase = "open"
    => /\ wm.gens[1].path = WalFileName(PreMaxId + 1)
       /\ wm.gens[1].path \notin PreNames
       /\ wm.gens[1].fd = Len(wm.pre) + 1
       /\ wm.last.op = "new" => wm.m.next_wal_id = PreMaxId + 2
       /\ \A i \in 1..Len(wm.pre) : wm.fs.inodes[i] = OldFile
       /\ \A g \in 1..Len(wm.gens) : wm.gens[g].fd > Len(wm.pre)

\* on a directory with 7.wal and 000003.wal the manager has appended to 000008.wal
C18_Witness ==
    /\ wm.phase = "open"
    /\ wm.pre = << Name7Wal, Name000003Wal >>
    /\ wm.gens[1].path = WalFileName(8)
    /\ Len(wm.gens[1].records) = 1
    /\ wm.m.next_wal_id = 9

C39_FailedRotateChangesNothing ==
    [][ (wm.phase = "open" /\ wm'.last.op = "rotate" /\ ~wm'.last.ok)
          => /\ wm'.m.active_path = wm.m.active_path
             /\ wm'.m.active_fd = wm.m.active_fd
             /\ wm'.m.next_wal_id = wm.m.next_wal_id
             /\ wm'.m.sync_policy = wm.m.sync_policy
             /\ WALWriterOffset(wm'.m.active_writer) = WALWriterOffset(wm.m.active_writer)
             /\ DOMAIN wm'.fs.names = DOMAIN wm.fs.names
             /\ wm'.fs.inodes[wm.m.active_fd].file = wm.fs.inodes[wm.m.active_fd].file
             /\ wm'.gens = wm.gens /\ wm'.returned = wm.returned ]_vars

\* after a rotate that failed at creating the file, an append went to the WAL
\* that was active before and the next rotate created the file of the same ID
C39_RetryUsesSameId ==
    (wm.phase = "open" /\ wm.last.op = "rotate")
    => /\ wm.m.active_path = WalFileName(wm.m.next_wal_id - 1)
       /\ wm.m.active_path = wm.gens[Len(wm.gens)].path
       /\ \A g \in 1..(Len(wm.gens) - 1) :
            WalIdOf(wm.gens[g + 1].path) = WalIdOf(wm.gens[g].path) + 1

\* the new file could not be created after the sync of the active WAL, which
\* holds a record, had succeeded; an earlier rotate had succeeded
C39_Witness ==
    /\ wm.phase = "open"
    /\ wm.last = [ op |-> "rotate", ok |-> FALSE, synced |-> TRUE ]
    /\ Len(wm.gens) = 2 /\ Len(wm.gens[2].records) = 1
    /\ wm.m.active_path = wm.gens[2].path
    /\ wm.m.sync_policy.kind # "EveryWrite"

----------------------------------------------------------------------------
(* One MemTable and its client *)

\* random_height() results explored for the memtable: 1..MemMaxHeight
MemMaxHeight == 2
\* put and delete calls made on the memtable
MaxMemWrites == 4

MemKeys    == { <<>>, <<1>>, <<1, 0>> }
MemValues  == { <<>>, <<5>>, <<6>> }
MemHeights == 1..Min(MemMaxHeight, MAX_HEIGHT)

\* last: per key, the last write the client made; writes counts the writes
MemNone == [ mt |-> MemTableNew(SizeLimit),
             last |-> [ k \in MemKeys |-> [ op |-> "none", value |-> <<>>, writes |-> 0 ] ],
             writes |-> 0,
             got |-> <<>> ]

InitMem == MoreIdle /\ MgrIdle /\ BloomIdle /\ MergeIdle /\ ConcIdle /\ SstIdle /\ WalIdle /\ WriterIdle /\ WalMgrIdle /\ mem = MemNone

\* mt.put(key, value)
MemPut(k, v, h) ==
    /\ mem.writes < MaxMemWrites
    /\ mem' = [ mem EXCEPT !.mt = MemTablePut(mem.mt, k, v, h),
                           !.last[k] = [ op |-> "put", value |-> v, writes |-> @.writes + 1 ],
                           !.writes = @ + 1,
                           !.got = <<>> ]
    /\ UNCHANGED <<mgr, call, hist, thr, lock, wlog, sst, wal, ww, wm, sl, cur, mi, rc, blk, bf, mg>>

\* mt.delete(key)
MemDelete(k, h) ==
    /\ mem.writes < MaxMemWrites
    /\ mem' = [ mem EXCEPT !.mt = MemTableDelete(mem.mt, k, h),
                           !.last[k] = [ op |-> "delete", value |-> <<>>, writes |-> @.writes + 1 ],
                           !.writes = @ + 1,
                           !.got = <<>> ]
    /\ UNCHANGED <<mgr, call, hist, thr, lock, wlog, sst, wal, ww, wm, sl, cur, mi, rc, blk, bf, mg>>

\* mt.get(key)
MemGet(k) ==
    /\ mem' = [ mem EXCEPT !.got = << [ key |-> k, res |-> MemTableGet(mem.mt, k) ] >> ]
    /\ UNCHANGED <<mgr, call, hist, thr, lock, wlog, sst, wal, ww, wm, sl, cur, mi, rc, blk, bf, mg>>

NextMem ==
    \/ \E k \in MemKeys, v \in MemValues, h \in MemHeights : MemPut(k, v, h)
    \/ \E k \in MemKeys, h \in MemHeights : MemDelete(k, h)
    \/ \E k \in MemKeys : MemGet(k)

SpecMem == InitMem /\ [][NextMem]_vars

\* C20: get(k) is absent when the last operation on k was a delete or k was never
\* written, and is v when the last operation on k was put(k, v) with non-empty v.
C20_GetFollowsLastWrite ==
    mem.got # <<>>
    => LET l == mem.last[mem.got[1].key] IN
       /\ l.op \in { "none", "delete" } => mem.got[1].res = <<>>
       /\ (l.op = "put" /\ l.value # <<>>) => mem.got[1].res = << l.value >>

\* put, delete, put on one key among other keys: get returns the last value; and
\* a delete of a key never written before leaves it absent
C20_Witness ==
    /\ mem.got # <<>>
    /\ mem.last[mem.got[1].key].op = "put"
    /\ mem.last[mem.got[1].key].writes = 3
    /\ mem.got[1].res = << <<6>> >>
    /\ \E k \in MemKeys : mem.last[k].op = "delete" /\ mem.last[k].writes = 1
                            /\ MemTableGet(mem.mt, k) = <<>>

----------------------------------------------------------------------------
(* One MemTable that is written and then iterated from iter() to the end *)

\* the loop of a client that collects an iterator: while is_valid() { key();
\* value(); next() }, at most fuel times; ended tells that it saw the cursor invalid
RECURSIVE CollectLoop(_, _, _, _)
CollectLoop(list, it, collected, fuel) ==
    IF ~IteratorIsValid(it) \/ fuel = 0
    THEN [ entries |-> collected, ended |-> ~IteratorIsValid(it) ]
    ELSE CollectLoop(list, IteratorNext(list, it).it,
                     Append(collected, << IteratorKey(list, it).bytes,
                                          IteratorValue(list, it).bytes >>),
                     fuel - 1)

\* last: per key, the last write the client made; walk: what the last loop collected
MiNone == [ mt |-> MemTableNew(SizeLimit),
            last |-> [ k \in MemKeys |-> [ op |-> "none", value |-> <<>> ] ],
            writes |-> 0,
            walk |-> <<>> ]

InitMemIter ==
    /\ MgrIdle /\ BloomIdle /\ MergeIdle /\ ConcIdle /\ SstIdle /\ WalIdle /\ MemIdle /\ WriterIdle /\ WalMgrIdle
    /\ SkipIdle /\ CursorIdle /\ CodecIdle /\ BlockIdle
    /\ mi = MiNone

\* mt.put(key, value)
MiPut(k, v, h) ==
    /\ mi.writes < MaxMemWrites
    /\ mi' = [ mi EXCEPT !.mt = MemTablePut(mi.mt, k, v, h),
                         !.last[k] = [ op |-> "put", value |-> v ],
                         !.writes = @ + 1,
                         !.walk = <<>> ]
    /\ UNCHANGED <<mgr, call, hist, thr, lock, wlog, sst, wal, mem, ww, wm, sl, cur, rc, blk, bf, mg>>

\* mt.delete(key)
MiDelete(k, h) ==
    /\ mi.writes < MaxMemWrites
    /\ mi' = [ mi EXCEPT !.mt = MemTableDelete(mi.mt, k, h),
                         !.last[k] = [ op |-> "delete", value |-> <<>> ],
                         !.writes = @ + 1,
                         !.walk = <<>> ]
    /\ UNCHANGED <<mgr, call, hist, thr, lock, wlog, sst, wal, mem, ww, wm, sl, cur, rc, blk, bf, mg>>

\* let mut iter = mt.iter(); and the collecting loop on it
MiWalk ==
    /\ mi.walk = <<>>
    /\ mi' = [ mi EXCEPT !.walk = << CollectLoop(mi.mt.data, MemTableIter(mi.mt), <<>>,
                                                 Len(mi.mt.data.nodes)) >> ]
    /\ UNCHANGED <<mgr, call, hist, thr, lock, wlog, sst, wal, mem, ww, wm, sl, cur, rc, blk, bf, mg>>

NextMemIter ==
    \/ \E k \in MemKeys, v \in MemValues, h \in MemHeights : MiPut(k, v, h)
    \/ \E k \in MemKeys, h \in MemHeights : MiDelete(k, h)
    \/ MiWalk

SpecMemIter == InitMemIter /\ [][NextMemIter]_vars

\* the positions of a walk whose key is k
WalkPositions(entries, k) == { i \in 1..Len(entries) : entries[i][1] = k }

\* C21: iterating a memtable from iter() to the end yields every key ever put or
\* deleted exactly once and no other key, in strictly ascending key order; a key
\* whose last write was a delete is there with an empty value, and get hides it.
C21_IterYieldsTombstones ==
    mi.walk # <<>>
    => LET e == mi.walk[1].entries IN
       /\ mi.walk[1].ended
       /\ StrictlyAscending(e)
       /\ \A i \in 1..Len(e) : e[i][1] \in MemKeys
       /\ \A k \in MemKeys :
             /\ Cardinality(WalkPositions(e, k)) = IF mi.last[k].op = "none" THEN 0 ELSE 1
             /\ mi.last[k].op = "delete"
                  => /\ \A i \in WalkPositions(e, k) : e[i][2] = <<>>
                     /\ MemTableGet(mi.mt, k) = <<>>

\* a put key, then a key deleted after a put and a key deleted without a put, all
\* three collected, the tombstones between and after the live key
C21_Witness ==
    /\ mi.walk # <<>>
    /\ Len(mi.walk[1].entries) = 3
    /\ mi.last[<<>>].op = "delete"
    /\ mi.last[<<1>>].op = "put" /\ mi.last[<<1>>].value = <<5>>
    /\ mi.last[<<1, 0>>].op = "delete"
    /\ mi.writes = 4
    /\ mi.walk[1].entries = << << <<>>, <<>> >>, << <<1>>, <<5>> >>, << <<1, 0>>, <<>> >> >>

----------------------------------------------------------------------------
(* One SkipList and one SkipListIterator on it *)

\* random_height() results explored for the list under a cursor: 1..CurMaxHeight
CurMaxHeight == 2
\* insert calls made on the list under a cursor
MaxCurInserts == 3

CurKeys    == { <<>>, <<1>>, <<1, 0>> }
CurValues  == { <<5>>, <<6>> }
CurHeights == 1..Min(CurMaxHeight, MAX_HEIGHT)
\* seek targets: the keys, a key between two of them and a key above all of them
CurTargets == CurKeys \cup { <<0>>, <<2>> }

CurNoCall == [ op |-> "none", target |-> <<>>, was_valid |-> FALSE,
               outcome |-> "none", bytes |-> <<>> ]

\* it: the iterator, if one is alive; inserted: the keys inserted so far;
\* from_iter: the cursor came from iter() and was moved by advance/next only;
\* visited: the keys the cursor has been on since iter(); last: the last cursor call
CurNone == [ list |-> SkipListNew, inserts |-> 0, inserted |-> {}, it |-> <<>>,
             from_iter |-> FALSE, visited |-> <<>>, last |-> CurNoCall,
             panicked |-> FALSE ]

InitCursor ==
    /\ MgrIdle /\ BloomIdle /\ MergeIdle /\ ConcIdle /\ SstIdle /\ WalIdle /\ MemIdle /\ WriterIdle /\ WalMgrIdle
    /\ SkipIdle /\ MemIterIdle /\ CodecIdle /\ BlockIdle
    /\ cur = CurNone

\* the key under a valid cursor, as a sequence to append to visited
KeyUnder(list, it) ==
    IF IteratorIsValid(it) THEN << IteratorKey(list, it).bytes >> ELSE <<>>

\* list.insert(key, value); the iterator borrows the list, so none is alive
CurInsert(k, v, h) ==
    /\ ~cur.panicked
    /\ cur.inserts < MaxCurInserts
    /\ cur' = [ cur EXCEPT !.list = SkipListInsert(cur.list, k, v, h),
                           !.inserts = @ + 1,
                           !.inserted = @ \cup { k },
                           !.it = <<>>, !.from_iter = FALSE, !.visited = <<>>,
                           !.last = CurNoCall ]
    /\ UNCHANGED <<mgr, call, hist, thr, lock, wlog, sst, wal, mem, ww, wm, sl, mi, rc, blk, bf, mg>>

\* let mut iter = list.iter()
CurIter ==
    /\ ~cur.panicked
    /\ LET it == SkipListIter(cur.list) IN
       cur' = [ cur EXCEPT !.it = << it >>, !.from_iter = TRUE,
                           !.visited = KeyUnder(cur.list, it),
                           !.last = [ CurNoCall EXCEPT !.op = "iter" ] ]
    /\ UNCHANGED <<mgr, call, hist, thr, lock, wlog, sst, wal, mem, ww, wm, sl, mi, rc, blk, bf, mg>>

\* iter.key()
CurKey ==
    /\ ~cur.panicked /\ cur.it # <<>>
    /\ LET r == IteratorKey(cur.list, cur.it[1]) IN
       cur' = [ cur EXCEPT !.last = [ op |-> "key", target |-> <<>>,
                                      was_valid |-> IteratorIsValid(cur.it[1]),
                                      outcome |-> IF r.panics THEN "panic" ELSE "returned",
                                      bytes |-> r.bytes ],
                           !.panicked = r.panics ]
    /\ UNCHANGED <<mgr, call, hist, thr, lock, wlog, sst, wal, mem, ww, wm, sl, mi, rc, blk, bf, mg>>

\* iter.value()
CurValue ==
    /\ ~cur.panicked /\ cur.it # <<>>
    /\ LET r == IteratorValue(cur.list, cur.it[1]) IN
       cur' = [ cur EXCEPT !.last = [ op |-> "value", target |-> <<>>,
                                      was_valid |-> IteratorIsValid(cur.it[1]),
                                      outcome |-> IF r.panics THEN "panic" ELSE "returned",
                                      bytes |-> r.bytes ],
                           !.panicked = r.panics ]
    /\ UNCHANGED <<mgr, call, hist, thr, lock, wlog, sst, wal, mem, ww, wm, sl, mi, rc, blk, bf, mg>>

\* iter.advance(): returns (), whatever the cursor
CurAdvance ==
    /\ ~cur.panicked /\ cur.it # <<>>
    /\ LET it == IteratorAdvance(cur.list, cur.it[1]) IN
       cur' = [ cur EXCEPT !.it = << it >>,
                           !.visited = IF cur.from_iter /\ IteratorIsValid(cur.it[1])
                                       THEN @ \o KeyUnder(cur.list, it) ELSE @,
                           !.last = [ CurNoCall EXCEPT !.op = "advance",
                                        !.was_valid = IteratorIsValid(cur.it[1]),
                                        !.outcome = "returned" ] ]
    /\ UNCHANGED <<mgr, call, hist, thr, lock, wlog, sst, wal, mem, ww, wm, sl, mi, rc, blk, bf, mg>>

\* iter.next(): the Result it returns is the outcome
CurNext ==
    /\ ~cur.panicked /\ cur.it # <<>>
    /\ LET r == IteratorNext(cur.list, cur.it[1]) IN
       cur' = [ cur EXCEPT !.it = << r.it >>,
                           !.visited = IF cur.from_iter /\ IteratorIsValid(cur.it[1])
                                       THEN @ \o KeyUnder(cur.list, r.it) ELSE @,
                           !.last = [ CurNoCall EXCEPT !.op = "next",
                                        !.was_valid = IteratorIsValid(cur.it[1]),
                                        !.outcome = IF r.ok THEN "ok" ELSE "error" ] ]
    /\ UNCHANGED <<mgr, call, hist, thr, lock, wlog, sst, wal, mem, ww, wm, sl, mi, rc, blk, bf, mg>>

\* iter.seek(target)
CurSeek(target) ==
    /\ ~cur.panicked /\ cur.it # <<>>
    /\ LET r == IteratorSeek(cur.list, cur.it[1], target) IN
       cur' = [ cur EXCEPT !.it = << r.it >>, !.from_iter = FALSE, !.visited = <<>>,
                           !.last = [ CurNoCall EXCEPT !.op = "seek", !.target = target,
                                        !.was_valid = IteratorIsValid(cur.it[1]),
                                        !.outcome = IF r.ok THEN "ok" ELSE "error" ] ]
    /\ UNCHANGED <<mgr, call, hist, thr, lock, wlog, sst, wal, mem, ww, wm, sl, mi, rc, blk, bf, mg>>

NextCursor ==
    \/ \E k \in CurKeys, v \in CurValues, h \in CurHeights : CurInsert(k, v, h)
    \/ CurIter
    \/ CurKey
    \/ CurValue
    \/ CurAdvance
    \/ CurNext
    \/ \E t \in CurTargets : CurSeek(t)

SpecCursor == InitCursor /\ [][NextCursor]_vars

\* the keys of a walk are strictly ascending
AscendingKeys(keys) == \A i \in 1..(Len(keys) - 1) : Less(keys[i], keys[i + 1])

\* C22: a cursor taken from iter() and moved by advance/next only has visited
\* inserted keys only, in strictly ascending order and without skipping an
\* inserted key; once it is invalid it has visited every inserted key, once each.
C22_WalkVisitsKeysAscending ==
    (cur.it # <<>> /\ cur.from_iter)
    => LET v == cur.visited
           seen == { v[i] : i \in 1..Len(v) }
       IN /\ AscendingKeys(v)
          /\ seen \subseteq cur.inserted
          /\ IteratorIsValid(cur.it[1])
               => /\ v # <<>>
                  /\ v[Len(v)] = IteratorKey(cur.list, cur.it[1]).bytes
                  /\ \A k \in cur.inserted : Less(k, v[Len(v)]) => k \in seen
          /\ ~IteratorIsValid(cur.it[1])
               => /\ seen = cur.inserted
                  /\ Len(v) = Cardinality(cur.inserted)

\* three inserts on two keys, the larger key first and inserted twice, walked to
\* the end: two keys visited, the cursor invalid
C22_Witness ==
    /\ cur.it # <<>> /\ cur.from_iter
    /\ ~IteratorIsValid(cur.it[1])
    /\ cur.inserts = 3
    /\ cur.visited = << <<1>>, <<1, 0>> >>
    /\ cur.list.nodes[2].key = <<1, 0>>
    /\ cur.list.nodes[2].value = <<6>>
    /\ cur.last.op = "next"

\* the inserted keys that are not below the target
AtOrAbove(keys, target) == { k \in keys : ~Less(k, target) }

\* C24: after seek(target) the cursor is valid exactly when some inserted key is
\* >= target, and is then on the smallest such key, with that key's value;
\* whether the cursor was valid before the seek makes no difference.
C24_SeekFindsFirstAtOrAbove ==
    (cur.it # <<>> /\ cur.last.op = "seek")
    => LET above == AtOrAbove(cur.inserted, cur.last.target)
           it    == cur.it[1]
       IN /\ cur.last.outcome = "ok"
          /\ IteratorIsValid(it) <=> above # {}
          /\ IteratorIsValid(it)
               => /\ IteratorKey(cur.list, it).bytes \in above
                  /\ \A k \in above : ~Less(k, IteratorKey(cur.list, it).bytes)
                  /\ << IteratorValue(cur.list, it).bytes >>
                       = SkipListGet(cur.list, IteratorKey(cur.list, it).bytes)

\* a seek from an invalid cursor to a target that is not a key and lies between
\* two keys lands on the larger one; three keys are in the list
C24_Witness ==
    /\ cur.it # <<>> /\ cur.last.op = "seek"
    /\ ~cur.last.was_valid
    /\ cur.last.target = <<0>>
    /\ cur.inserted = CurKeys
    /\ IteratorIsValid(cur.it[1])
    /\ IteratorKey(cur.list, cur.it[1]).bytes = <<1>>

\* C25: key, value, advance and next on a cursor that is not valid panic or
\* return an error; none of them returns normally.
C25_InvalidCursorCallsFail ==
    (cur.last.op \in { "key", "value", "advance", "next" } /\ ~cur.last.was_valid)
    => cur.last.outcome \in { "panic", "error" }

----------------------------------------------------------------------------
(* One SkipList and the answers it gives *)

\* random_height() results explored for the list: 1..SlMaxHeight
SlMaxHeight == 2
\* insert calls made on the list
MaxSlInserts == 3

SlKeys    == { <<>>, <<1>>, <<1, 0>> }
SlValues  == { <<>>, <<5>>, <<6, 7>> }
SlHeights == 1..Min(SlMaxHeight, MAX_HEIGHT)

SlNoCall == [ op |-> "none", key |-> <<>>, res |-> <<>>, n |-> 0, outcome |-> "none" ]

\* expect: per key, the value of its last insert and the number of its inserts;
\* last: the last call that returns something, and what it returned
SlNone == [ list |-> SkipListNew,
            expect |-> [ k \in SlKeys |-> [ value |-> <<>>, inserts |-> 0 ] ],
            inserts |-> 0,
            last |-> SlNoCall,
            panicked |-> FALSE ]

InitSkip ==
    /\ MgrIdle /\ BloomIdle /\ MergeIdle /\ ConcIdle /\ SstIdle /\ WalIdle /\ MemIdle /\ WriterIdle /\ WalMgrIdle
    /\ CursorIdle /\ MemIterIdle /\ CodecIdle /\ BlockIdle
    /\ sl = SlNone

\* sl.insert(key, value)
SlInsert(k, v, h) ==
    /\ ~sl.panicked
    /\ sl.inserts < MaxSlInserts
    /\ sl' = [ sl EXCEPT !.list = SkipListInsert(sl.list, k, v, h),
                         !.expect[k] = [ value |-> << v >>, inserts |-> @.inserts + 1 ],
                         !.inserts = @ + 1,
                         !.last = SlNoCall ]
    /\ UNCHANGED <<mgr, call, hist, thr, lock, wlog, sst, wal, mem, ww, wm, cur, mi, rc, blk, bf, mg>>

\* sl.get(key)
SlGet(k) ==
    /\ ~sl.panicked
    /\ sl' = [ sl EXCEPT !.last = [ SlNoCall EXCEPT !.op = "get", !.key = k,
                                      !.res = SkipListGet(sl.list, k),
                                      !.outcome = "returned" ] ]
    /\ UNCHANGED <<mgr, call, hist, thr, lock, wlog, sst, wal, mem, ww, wm, cur, mi, rc, blk, bf, mg>>

\* sl.len()
SlLen ==
    /\ ~sl.panicked
    /\ sl' = [ sl EXCEPT !.last = [ SlNoCall EXCEPT !.op = "len",
                                      !.n = SkipListLen(sl.list),
                                      !.outcome = "returned" ] ]
    /\ UNCHANGED <<mgr, call, hist, thr, lock, wlog, sst, wal, mem, ww, wm, cur, mi, rc, blk, bf, mg>>

\* sl.size_bytes()
SlSizeBytes ==
    /\ ~sl.panicked
    /\ LET r == SkipListSizeBytes(sl.list) IN
       sl' = [ sl EXCEPT !.last = [ SlNoCall EXCEPT !.op = "size_bytes",
                                      !.n = r.bytes,
                                      !.outcome = IF r.panics THEN "panic" ELSE "returned" ],
                         !.panicked = r.panics ]
    /\ UNCHANGED <<mgr, call, hist, thr, lock, wlog, sst, wal, mem, ww, wm, cur, mi, rc, blk, bf, mg>>

NextSkip ==
    \/ \E k \in SlKeys, v \in SlValues, h \in SlHeights : SlInsert(k, v, h)
    \/ \E k \in SlKeys : SlGet(k)
    \/ SlLen
    \/ SlSizeBytes

SpecSkip == InitSkip /\ [][NextSkip]_vars

\* C23: get(k) returns the value of the last insert for k, and absent for a key
\* never inserted; len() is the number of distinct keys inserted.
C23_GetLastInsertLenDistinct ==
    /\ sl.last.op = "get" => sl.last.res = sl.expect[sl.last.key].value
    /\ sl.last.op = "len"
         => sl.last.n = Cardinality({ k \in SlKeys : sl.expect[k].inserts > 0 })

\* the node of a key two levels high, behind a smaller key of the same height, is
\* met by the search at the upper level and overwritten: get returns the new
\* value and the list holds two entries after three inserts
C23_Witness ==
    /\ sl.last.op = "get" /\ sl.last.key = <<1, 0>>
    /\ sl.expect[<<1, 0>>].inserts = 2
    /\ sl.expect[<<1>>].inserts = 1
    /\ sl.last.res = << <<6, 7>> >>
    /\ SkipListLen(sl.list) = 2
    /\ \E i \in 2..3 : /\ sl.list.nodes[i].key = <<1, 0>>
                        /\ Len(sl.list.nodes[i].forward) = 2
                        /\ sl.list.nodes[5 - i].key = <<1>>
                        /\ Len(sl.list.nodes[5 - i].forward) = 2

\* the key and value bytes the list holds
RECURSIVE HeldBytes(_, _)
HeldBytes(nodes, i) ==
    IF i > Len(nodes) THEN 0
    ELSE Len(nodes[i].key) + Len(nodes[i].value) + HeldBytes(nodes, i + 1)

\* C26: size_bytes() returns, and what it returns is 0 on an empty list and at
\* least the key and value bytes of the entries of the list.
C26_SizeBytesBoundsContent ==
    sl.last.op = "size_bytes"
    => /\ sl.last.outcome = "returned"
       /\ sl.inserts = 0 => sl.last.n = 0
       /\ sl.last.n >= HeldBytes(sl.list.nodes, 2)

----------------------------------------------------------------------------
(* One WALRecord that is encoded and decoded *)

\* the longest key and the longest value of the record
MaxRcLen == 2

\* the bytes keys and values are made of: the smallest, the largest, one between
RcByteValues == { 0, 1, 255 }
RcBytes == UNION { [ 1..n -> RcByteValues ] : n \in 0..MaxRcLen }
RcTypes == { Put, Delete }

RcNone == [ phase |-> "none", record |-> <<>>, bytes |-> <<>>, size |-> 0, decoded |-> <<>> ]

InitCodec ==
    /\ MgrIdle /\ BloomIdle /\ MergeIdle /\ ConcIdle /\ SstIdle /\ WalIdle /\ MemIdle /\ WriterIdle /\ WalMgrIdle
    /\ SkipIdle /\ CursorIdle /\ MemIterIdle /\ BlockIdle
    /\ rc = RcNone

\* WALRecord::put(key, value)
RcPut(k, v) ==
    /\ rc.phase = "none"
    /\ rc' = [ rc EXCEPT !.phase = "record", !.record = << WALRecordPut(k, v) >> ]
    /\ UNCHANGED <<mgr, call, hist, thr, lock, wlog, sst, wal, mem, ww, wm, sl, cur, mi, blk, bf, mg>>

\* WALRecord::delete(key)
RcDelete(k) ==
    /\ rc.phase = "none"
    /\ rc' = [ rc EXCEPT !.phase = "record", !.record = << WALRecordDelete(k) >> ]
    /\ UNCHANGED <<mgr, call, hist, thr, lock, wlog, sst, wal, mem, ww, wm, sl, cur, mi, blk, bf, mg>>

\* WALRecord { record_type, key, value }: the fields are public, so a Delete
\* record may carry a value
RcLiteral(t, k, v) ==
    /\ rc.phase = "none"
    /\ rc' = [ rc EXCEPT !.phase = "record",
                         !.record = << [ record_type |-> t, key |-> k, value |-> v ] >> ]
    /\ UNCHANGED <<mgr, call, hist, thr, lock, wlog, sst, wal, mem, ww, wm, sl, cur, mi, blk, bf, mg>>

\* r.encode() and r.encoded_size()
RcEncode ==
    /\ rc.phase = "record"
    /\ rc' = [ rc EXCEPT !.phase = "encoded",
                         !.bytes = WALRecordEncode(rc.record[1]),
                         !.size = WALRecordEncodedSize(rc.record[1]) ]
    /\ UNCHANGED <<mgr, call, hist, thr, lock, wlog, sst, wal, mem, ww, wm, sl, cur, mi, blk, bf, mg>>

\* WALRecord::decode(&bytes)
RcDecode ==
    /\ rc.phase = "encoded"
    /\ rc' = [ rc EXCEPT !.phase = "decoded", !.decoded = << WALRecordDecode(rc.bytes) >> ]
    /\ UNCHANGED <<mgr, call, hist, thr, lock, wlog, sst, wal, mem, ww, wm, sl, cur, mi, blk, bf, mg>>

NextCodec ==
    \/ \E k \in RcBytes, v \in RcBytes : RcPut(k, v)
    \/ \E k \in RcBytes : RcDelete(k)
    \/ \E t \in RcTypes, k \in RcBytes, v \in RcBytes : RcLiteral(t, k, v)
    \/ RcEncode
    \/ RcDecode

SpecCodec == InitCodec /\ [][NextCodec]_vars

\* C27: decode(encode(r)) succeeds and returns the type, key and value of r, and
\* r.encoded_size() is the length of encode(r).
C27_DecodeInvertsEncode ==
    /\ rc.phase \in { "encoded", "decoded" } => rc.size = Len(rc.bytes)
    /\ rc.phase = "decoded"
         => /\ rc.decoded[1].ok
            /\ rc.decoded[1].record.record_type = rc.record[1].record_type
            /\ rc.decoded[1].record.key = rc.record[1].key
            /\ rc.decoded[1].record.value = rc.record[1].value

\* a Delete record with an empty key and a Put record with an empty value
\* between them cover the empty cases; this is the Delete with an empty key
C27_Witness ==
    /\ rc.phase = "decoded"
    /\ rc.record[1] = WALRecordDelete(<<>>)
    /\ rc.decoded[1].ok
    /\ rc.decoded[1].record = WALRecordDelete(<<>>)
    /\ rc.size = HEADER_SIZE

----------------------------------------------------------------------------
(* One BlockBuilder and the entries offered to it *)

\* add calls made on the block builder
MaxBlkAdds == 3

BlkKeys   == { <<>>, <<1>>, <<1, 1>>, <<2>> }
BlkValues == { <<7>>, <<8, 9>> }
\* target sizes: below any entry, at the size of two small entries, and roomy
BlkSizes  == { 0, 16, 64 }

BlkNoCall == [ op |-> "none", key |-> <<>>, value |-> <<>>, ok |-> FALSE,
               outcome |-> "none", before |-> <<>>, prev |-> <<>> ]

\* the key of the entry accepted last, if any
LastAccepted(accepted) ==
    IF accepted = <<>> THEN <<>> ELSE << accepted[Len(accepted)][1] >>

\* accepted: the entries add returned true for, in order; last: the last add,
\* its result, the builder it was called on and the key accepted before it
BlkNone == [ phase |-> "none", builder |-> <<>>, accepted |-> <<>>, adds |-> 0,
             last |-> BlkNoCall, block |-> <<>> ]

InitBlock ==
    /\ MgrIdle /\ BloomIdle /\ MergeIdle /\ ConcIdle /\ SstIdle /\ WalIdle /\ MemIdle /\ WriterIdle /\ WalMgrIdle
    /\ SkipIdle /\ CursorIdle /\ MemIterIdle /\ CodecIdle
    /\ blk = BlkNone

\* BlockBuilder::new(block_size)
BlkNew(block_size) ==
    /\ blk.phase = "none"
    /\ blk' = [ blk EXCEPT !.phase = "building", !.builder = BlockBuilderNew(block_size) ]
    /\ UNCHANGED <<mgr, call, hist, thr, lock, wlog, sst, wal, mem, ww, wm, sl, cur, mi, rc, bf, mg>>

\* builder.add(key, value): it returns a bool, whatever the key
BlkAdd(k, v) ==
    /\ blk.phase = "building"
    /\ blk.adds < MaxBlkAdds
    /\ LET r == BlockBuilderAdd(blk.builder, k, v) IN
       blk' = [ blk EXCEPT !.builder = r.bb,
                           !.accepted = IF r.ok THEN Append(@, << k, v >>) ELSE @,
                           !.adds = @ + 1,
                           !.last = [ op |-> "add", key |-> k, value |-> v, ok |-> r.ok,
                                      outcome |-> "returned", before |-> blk.builder,
                                      prev |-> LastAccepted(blk.accepted) ] ]
    /\ UNCHANGED <<mgr, call, hist, thr, lock, wlog, sst, wal, mem, ww, wm, sl, cur, mi, rc, bf, mg>>

\* builder.build()
BlkBuild ==
    /\ blk.phase = "building"
    /\ blk' = [ blk EXCEPT !.phase = "built", !.block = BlockBuilderBuild(blk.builder),
                           !.last = BlkNoCall ]
    /\ UNCHANGED <<mgr, call, hist, thr, lock, wlog, sst, wal, mem, ww, wm, sl, cur, mi, rc, bf, mg>>

NextBlock ==
    \/ \E bs \in BlkSizes : BlkNew(bs)
    \/ \E k \in BlkKeys, v \in BlkValues : BlkAdd(k, v)
    \/ BlkBuild

SpecBlock == InitBlock /\ [][NextBlock]_vars

\* the bytes of one entry of a block: key_len, val_len (2 bytes each), key, value
EntryBytes(key, value) == ToLE(Len(key), 2) \o ToLE(Len(value), 2) \o key \o value

\* C28: add returns false exactly when the builder holds an entry and
\* estimated_size() + 4 + key.len() + value.len() exceeds the target size, and then
\* leaves the builder as it was; otherwise it returns true and the entry is
\* appended: the data grows by the entry, one offset (the old data length) is
\* added, the estimated size grows by the entry and its offset.
C28_AddRefusesOnlyFullBlock ==
    blk.last.op = "add"
    => LET b      == blk.last.before
           k      == blk.last.key
           v      == blk.last.value
           refuse == /\ ~BlockIsEmpty(b)
                     /\ BlockEstimatedSize(b) + 4 + Len(k) + Len(v) > b.block_size
       IN /\ blk.last.ok = ~refuse
          /\ BlockIsEmpty(b) => blk.last.ok
          /\ refuse => blk.builder = b
          /\ ~refuse
               => /\ blk.builder.data = b.data \o EntryBytes(k, v)
                  /\ blk.builder.offsets = Append(b.offsets, Len(b.data))
                  /\ blk.builder.block_size = b.block_size
                  /\ BlockEstimatedSize(blk.builder)
                       = BlockEstimatedSize(b) + 4 + Len(k) + Len(v) + 2

\* with target 16, a second entry that brings the sum to 16 exactly is accepted
\* and a third entry is refused, the builder still holding two entries
C28_Witness ==
    /\ blk.last.op = "add" /\ ~blk.last.ok
    /\ blk.builder.block_size = 16
    /\ Len(blk.accepted) = 2
    /\ BlockEstimatedSize(blk.builder) = 18
    /\ blk.adds = 3

\* C29: an add whose key is not strictly greater than the key accepted before it
\* panics; it does not return, neither true nor false.
C29_OutOfOrderAddPanics ==
    (/\ blk.last.op = "add"
     /\ blk.last.prev # <<>>
     /\ ~Less(blk.last.prev[1], blk.last.key))
    => blk.last.outcome = "panic"

----------------------------------------------------------------------------
(* One BlockBuilder offered an entry that is longer than 16 bits count *)

\* a key of 2^16 bytes
LongKey == [ i \in 1..65536 |-> 0 ]

BlkLongKeys   == { <<>>, <<1>>, LongKey }
BlkLongValues == { <<7>> }
BlkLongSizes  == { 16, 4096, 70000 }

NextBlockLong ==
    \/ \E bs \in BlkLongSizes : BlkNew(bs)
    \/ \E k \in BlkLongKeys, v \in BlkLongValues : BlkAdd(k, v)
    \/ BlkBuild

SpecBlockLong == InitBlock /\ [][NextBlockLong]_vars

\* the number of bytes the first j entries take in the entry region
RECURSIVE EntryOffset(_, _)
EntryOffset(entries, j) ==
    IF j = 0 THEN 0
    ELSE EntryOffset(entries, j - 1) + 4 + Len(entries[j][1]) + Len(entries[j][2])

\* C40: the block built from the accepted entries passes the reader's
\* validation: its count is the number of accepted entries, the first offset is
\* 0, the offsets increase strictly, and every offset, key length and value
\* length stored is the true one.
C40_BuiltBlockIsValid ==
    (blk.phase = "built")
    => LET d == BlockDecode(blk.block)
           n == Len(blk.accepted)
       IN /\ d.ok
          /\ Len(d.offsets) = n
          /\ n > 0 => d.offsets[1] = 0
          /\ \A i \in 1..(n - 1) : d.offsets[i] < d.offsets[i + 1]
          /\ \A i \in 1..n :
               /\ d.offsets[i] = EntryOffset(blk.accepted, i - 1)
               /\ FromLE(SubSeq(d.data, d.offsets[i] + 1, d.offsets[i] + 2))
                    = Len(blk.accepted[i][1])
               /\ FromLE(SubSeq(d.data, d.offsets[i] + 3, d.offsets[i] + 4))
                    = Len(blk.accepted[i][2])

----------------------------------------------------------------------------
(* Claims about the SSTable builder *)

\* the keys of the added entries never descend
Ascending(entries) ==
    \A i \in 1..(Len(entries) - 1) : ~Less(entries[i + 1][1], entries[i][1])

\* C30: after adds in ascending key order, finish returns a meta whose min_key is
\* the first key added, max_key the last key added, entry_count the number of
\* adds, id the id the builder was constructed with (the model constructs
\* builders with the ids of SstIds, a single one) and level 0.
C30_FinishMetaDescribesAdds ==
    (sst.phase = "finished" /\ sst.added # <<>> /\ Ascending(sst.added))
    => /\ sst.meta.min_key = sst.added[1][1]
       /\ sst.meta.max_key = sst.added[Len(sst.added)][1]
       /\ sst.meta.entry_count = Len(sst.added)
       /\ \A id \in SstIds : sst.meta.id = id
       /\ sst.meta.level = 0

\* three adds in strictly ascending order, the empty key first: the meta names
\* the empty key as min_key and the last key as max_key
C30_Witness ==
    /\ sst.phase = "finished"
    /\ Len(sst.added) = 3 /\ StrictlyAscending(sst.added)
    /\ sst.added[1][1] = <<>> /\ sst.added[3][1] = <<2>>
    /\ sst.meta.min_key = <<>> /\ sst.meta.max_key = <<2>>
    /\ sst.meta.entry_count = 3

----------------------------------------------------------------------------
(* Claims about MemTable *)

\* C37: a put of the empty value leaves the memtable as a delete of the key
\* does: the two calls lead to the same memtable, and while the last write of a
\* key is a put of the empty value, get finds the key absent and a walk from
\* iter() yields the key once, with the empty value.
C37_EmptyPutIsDelete ==
    /\ \A k \in MemKeys, h \in MemHeights :
         MemTablePut(mi.mt, k, <<>>, h) = MemTableDelete(mi.mt, k, h)
    /\ \A k \in MemKeys :
         mi.last[k] = [ op |-> "put", value |-> <<>> ]
         => /\ MemTableGet(mi.mt, k) = <<>>
            /\ mi.walk # <<>>
                 => /\ Cardinality(WalkPositions(mi.walk[1].entries, k)) = 1
                    /\ \A i \in WalkPositions(mi.walk[1].entries, k) :
                         mi.walk[1].entries[i][2] = <<>>

\* a key whose value 5 was overwritten by a put of the empty value and a key
\* that was deleted, both collected with the empty value, get hiding both
C37_Witness ==
    /\ mi.walk # <<>>
    /\ mi.walk[1].entries = << << <<>>, <<>> >>, << <<1>>, <<>> >> >>
    /\ mi.last[<<>>] = [ op |-> "put", value |-> <<>> ]
    /\ mi.last[<<1>>] = [ op |-> "delete", value |-> <<>> ]
    /\ mi.writes = 3
    /\ MemTableGet(mi.mt, <<>>) = <<>> /\ MemTableGet(mi.mt, <<1>>) = <<>>

----------------------------------------------------------------------------
(* Claims about the SSTable file *)

\* C31: the meta of the table that open returns for a finished file has the id,
\* level, min_key, max_key and entry_count of the meta that finish returned.
C31_OpenedMetaIsFinishedMeta ==
    (sst.phase = "opened")
    => /\ sst.table.meta.id = sst.meta.id
       /\ sst.table.meta.level = sst.meta.level
       /\ sst.table.meta.min_key = sst.meta.min_key
       /\ sst.table.meta.max_key = sst.meta.max_key
       /\ sst.table.meta.entry_count = sst.meta.entry_count

\* the members of a set of numbers in ascending order
RECURSIVE RunEnds(_)
RunEnds(S) ==
    IF S = {} THEN <<>>
    ELSE LET m == CHOOSE x \in S : \A y \in S : x <= y IN << m >> \o RunEnds(S \ {m})

\* entries cut into consecutive runs, a run ending after each position of cuts
Runs(entries, cuts) ==
    IF entries = <<>> THEN <<>>
    ELSE LET ends == RunEnds(cuts \cup {Len(entries)}) IN
         [ j \in 1..Len(ends) |->
             SubSeq(entries, IF j = 1 THEN 1 ELSE ends[j - 1] + 1, ends[j]) ]

\* the builder of one block after the entries of run were added to it
RECURSIVE FillBlock(_, _)
FillBlock(bb, run) ==
    IF run = <<>> THEN bb
    ELSE FillBlock(BlockBuilderAdd(bb, run[1][1], run[1][2]).bb, Tail(run))

\* the bytes of the data block that holds exactly the entries of run
BlockOf(run) == BlockBuilderBuild(FillBlock(BlockBuilderNew(4096), run))

\* C32: the file finished from strictly ascending adds opens, and its entries fall
\* into consecutive data blocks with one index entry each: the entry's offset and
\* size delimit the block, its last_key is the last (largest) key of the block and
\* is below the first key of the next block, the first offset is 0, each next
\* offset is the previous offset plus the previous size, and every added key lies
\* between the min_key and the max_key that finish returned.
C32_IndexDescribesBlocks ==
    (sst.phase \in {"opened", "open_failed"} /\ StrictlyAscending(sst.added))
    => /\ sst.table.ok
       /\ \E cuts \in SUBSET (1..(Len(sst.added) - 1)) :
            LET runs  == Runs(sst.added, cuts)
                index == sst.table.index
            IN /\ Len(index) = Len(runs)
               /\ \A i \in 1..Len(index) :
                    /\ ReadExact(sst.file, index[i].offset, index[i].size)
                         = [ ok |-> TRUE, bytes |-> BlockOf(runs[i]) ]
                    /\ index[i].last_key = runs[i][Len(runs[i])][1]
                    /\ i < Len(index) => Less(index[i].last_key, runs[i + 1][1][1])
                    /\ i < Len(index) => index[i + 1].offset = index[i].offset + index[i].size
               /\ index # <<>> => index[1].offset = 0
       /\ \A j \in 1..Len(sst.added) :
            /\ ~Less(sst.added[j][1], sst.meta.min_key)
            /\ ~Less(sst.meta.max_key, sst.added[j][1])

\* three entries in strictly ascending order that the small block size spreads
\* over more than one block
C32_Witness ==
    /\ sst.phase = "opened"
    /\ Len(sst.added) = 3 /\ StrictlyAscending(sst.added)
    /\ Len(sst.table.index) >= 2
    /\ sst.table.index[2].offset = sst.table.index[1].size

----------------------------------------------------------------------------
(* Bloom filter *)

\* u64 values are tuples of 8 bytes, least significant first
RECURSIVE AddBytes(_, _, _)
AddBytes(a, b, carry) ==
    IF a = <<>> THEN <<>>
    ELSE LET s == a[1] + b[1] + carry IN
         << s % 256 >> \o AddBytes(Tail(a), Tail(b), s \div 256)

\* u64::wrapping_add
WrappingAdd(a, b) == AddBytes(a, b, 0)

RECURSIVE ScaleBytes(_, _, _)
ScaleBytes(a, n, carry) ==
    IF a = <<>> THEN <<>>
    ELSE LET s == a[1] * n + carry IN
         << s % 256 >> \o ScaleBytes(Tail(a), n, s \div 256)

\* u64::wrapping_mul of a probe number i (a u32 widened to u64) and h2
WrappingMul(i, h2) == ScaleBytes(h2, i, 0)

\* the u64 a modulo n
RECURSIVE Rem(_, _)
Rem(a, n) == IF a = <<>> THEN 0 ELSE (a[1] + 256 * Rem(Tail(a), n)) % n

\* the struct built at the end of BloomFilter::new: num_bits bits, all zero,
\* packed in words of 64; a word is the set of its bit indices that are 1
BloomFilterNew(num_bits, num_hashes) ==
    [ bits       |-> [ w \in 1..((num_bits + 63) \div 64) |-> {} ],
      num_hashes |-> num_hashes,
      num_bits   |-> num_bits ]

GetPosition(f, h1, h2, i) == Rem(WrappingAdd(h1, WrappingMul(i, h2)), f.num_bits)

SetBit(f, pos) ==
    LET word_index == pos \div 64
        bit_index  == pos % 64
    IN [ f EXCEPT !.bits[word_index + 1] = @ \cup {bit_index} ]

CheckBit(f, pos) ==
    LET word_index == pos \div 64
        bit_index  == pos % 64
    IN bit_index \in f.bits[word_index + 1]

\* the loop of insert from probe i on
RECURSIVE InsertLoop(_, _, _, _)
InsertLoop(f, h1, h2, i) ==
    IF i >= f.num_hashes THEN f
    ELSE InsertLoop(SetBit(f, GetPosition(f, h1, h2, i)), h1, h2, i + 1)

\* an insert that leaves out the last probe
BloomInsert_SkipsLastProbe(f, h) ==
    [ InsertLoop([ f EXCEPT !.num_hashes = @ - 1 ], h[1], h[2], 0)
        EXCEPT !.num_hashes = f.num_hashes ]

\* insert; h is the pair (h1, h2) that hash_key returns for the key
BloomInsert(f, h) == InsertLoop(f, h[1], h[2], 0)

\* may_contain: false at the first probe whose bit is 0
BloomMayContain(f, h) ==
    \A i \in 0..(f.num_hashes - 1) : CheckBit(f, GetPosition(f, h[1], h[2], i))

----------------------------------------------------------------------------
(* One bloom filter, keys inserted into it and keys looked up *)

\* calls of insert on one filter
MaxBfInserts == 3

BfKeys == { <<>>, <<1>>, <<2>> }

U64(b) == << b, b, b, b, b, b, b, b >>
\* values of the two halves of xxh3_128: the sum h1 + i * h2 wraps around 2^64 for
\* the second and the third pair
BfHashes == { << U64(0), U64(0) >>,
              << U64(255), U64(255) >>,
              << << 63, 0, 0, 0, 0, 0, 0, 128 >>, << 1, 0, 0, 0, 0, 0, 0, 128 >> >>,
              << << 200, 1, 0, 0, 0, 0, 0, 0 >>, << 3, 0, 0, 0, 0, 0, 0, 0 >> >> }

\* (num_bits, num_hashes) that BloomFilter::new computes for (expected_items,
\* false_positive_rate) = (1, 0.5), (10, 0.1), (20, 0.1) and (100, 0.01):
\* bits_per_key = -1.44 * log2(rate), num_bits = max(ceil(items * bits_per_key), 64),
\* num_hashes = max(ceil(bits_per_key * ln 2), 1)
BfShapes == { << 64, 1 >>, << 64, 4 >>, << 96, 4 >>, << 957, 7 >> }

BfNoCall == [ op |-> "none", key |-> <<>>, res |-> FALSE ]

BfNone(hash) == [ phase |-> "none", hash |-> hash, filter |-> <<>>,
                  inserted |-> {}, inserts |-> 0, last |-> BfNoCall ]

\* hash_key is a fixed function of the key; which one is left open
InitBloom ==
    /\ MgrIdle /\ ConcIdle /\ SstIdle /\ WalIdle /\ NewIdle /\ MergeIdle
    /\ \E hash \in [ BfKeys -> BfHashes ] : bf = BfNone(hash)

\* BloomFilter::new
BfNew(shape) ==
    /\ bf.phase = "none"
    /\ bf' = [ bf EXCEPT !.phase = "made", !.filter = BloomFilterNew(shape[1], shape[2]) ]
    /\ UNCHANGED <<mgr, call, hist, thr, lock, wlog, sst, wal, mem, ww, wm, sl, cur, mi, rc, blk, mg>>

\* bf.insert(key); inserted is the set of the keys inserted so far
BfInsert(k) ==
    /\ bf.phase = "made"
    /\ bf.inserts < MaxBfInserts
    /\ bf' = [ bf EXCEPT !.filter = BloomInsert(bf.filter, bf.hash[k]),
                         !.inserted = @ \cup {k},
                         !.inserts = @ + 1,
                         !.last = [ op |-> "insert", key |-> k, res |-> FALSE ] ]
    /\ UNCHANGED <<mgr, call, hist, thr, lock, wlog, sst, wal, mem, ww, wm, sl, cur, mi, rc, blk, mg>>

\* bf.may_contain(key)
BfMayContain(k) ==
    /\ bf.phase = "made"
    /\ bf' = [ bf EXCEPT !.last = [ op |-> "may_contain", key |-> k,
                                    res |-> BloomMayContain(bf.filter, bf.hash[k]) ] ]
    /\ UNCHANGED <<mgr, call, hist, thr, lock, wlog, sst, wal, mem, ww, wm, sl, cur, mi, rc, blk, mg>>

NextBloom ==
    \/ \E shape \in BfShapes : BfNew(shape)
    \/ \E k \in BfKeys : BfInsert(k)
    \/ \E k \in BfKeys : BfMayContain(k)

SpecBloom == InitBloom /\ [][NextBloom]_vars

\* C33: a filter nothing was inserted into answers may_contain with false for
\* every key; a filter answers may_contain with true for every key that was
\* inserted into it, whatever was inserted or looked up since; every probe
\* position is below num_bits; and an answer given is the answer of the filter.
C33_NoFalseNegatives ==
    (bf.phase = "made")
    => /\ bf.inserted = {} => \A k \in BfKeys : ~BloomMayContain(bf.filter, bf.hash[k])
       /\ \A k \in bf.inserted : BloomMayContain(bf.filter, bf.hash[k])
       /\ \A k \in BfKeys : \A i \in 0..(bf.filter.num_hashes - 1) :
            GetPosition(bf.filter, bf.hash[k][1], bf.hash[k][2], i) < bf.filter.num_bits
       /\ (bf.last.op = "may_contain" /\ bf.last.key \in bf.inserted) => bf.last.res
       /\ (bf.last.op = "may_contain" /\ bf.inserted = {}) => ~bf.last.res

\* a filter of 7 probes with two keys inserted: may_contain answered true for
\* the one inserted first, and the filter says no for the key never inserted
C33_Witness ==
    /\ bf.phase = "made" /\ bf.filter.num_hashes = 7
    /\ bf.inserted = { <<>>, <<1>> } /\ bf.inserts = 2
    /\ bf.last = [ op |-> "may_contain", key |-> <<>>, res |-> TRUE ]
    /\ ~BloomMayContain(bf.filter, bf.hash[<<2>>])
    /\ bf.hash[<<>>][1] = U64(255)

----------------------------------------------------------------------------
(* Merging iterator *)

\* MergeIterator::new: not implemented, the call panics for every argument
MergeIteratorNew(iters) == [ panics |-> TRUE, iters |-> iters ]

----------------------------------------------------------------------------
(* Sorted sources and one MergeIterator made of them *)

\* entries of one source
MaxMgEntries == 2

MgSources == { 1, 2 }
MgKeys    == { <<>>, <<1>>, <<1, 0>> }
\* the empty value is a tombstone
MgValues  == { <<>>, <<5>> }

MgNoCall == [ op |-> "none", outcome |-> "none" ]

\* sources[1] is the newest source; yielded is what the walk over the merging
\* iterator yielded
MgNone == [ phase |-> "feeding", sources |-> [ s \in MgSources |-> <<>> ],
            yielded |-> <<>>, last |-> MgNoCall ]

InitMerge ==
    /\ MgrIdle /\ ConcIdle /\ SstIdle /\ WalIdle /\ NewIdle /\ BloomIdle
    /\ mg = MgNone

\* one more entry of source s, above the keys the source already has
MgFeed(s, k, v) ==
    /\ mg.phase = "feeding"
    /\ Len(mg.sources[s]) < MaxMgEntries
    /\ mg.sources[s] # <<>> => Less(mg.sources[s][Len(mg.sources[s])].key, k)
    /\ mg' = [ mg EXCEPT !.sources[s] = Append(@, [ key |-> k, value |-> v ]) ]
    /\ UNCHANGED <<mgr, call, hist, thr, lock, wlog, sst, wal, mem, ww, wm, sl, cur, mi, rc, blk, bf>>

\* MergeIterator::new(sources); the walk that would follow needs the iterator
MgNew ==
    /\ mg.phase = "feeding"
    /\ LET r == MergeIteratorNew(mg.sources) IN
       mg' = [ mg EXCEPT !.phase = "called",
                         !.last = [ op |-> "new",
                                    outcome |-> IF r.panics THEN "panic" ELSE "ok" ] ]
    /\ UNCHANGED <<mgr, call, hist, thr, lock, wlog, sst, wal, mem, ww, wm, sl, cur, mi, rc, blk, bf>>

NextMerge ==
    \/ \E s \in MgSources, k \in MgKeys, v \in MgValues : MgFeed(s, k, v)
    \/ MgNew

SpecMerge == InitMerge /\ [][NextMerge]_vars

\* source s has an entry of key k
Holds(sources, s, k) == \E i \in 1..Len(sources[s]) : sources[s][i].key = k

\* the value of key k in the newest (lowest-index) source that has the key
NewestValue(sources, k) ==
    LET s == CHOOSE t \in MgSources :
                 /\ Holds(sources, t, k)
                 /\ \A u \in MgSources : Holds(sources, u, k) => t <= u
        i == CHOOSE j \in 1..Len(sources[s]) : sources[s][j].key = k
    IN sources[s][i].value

\* C34: a merging iterator made of sorted sources yields keys in strictly
\* increasing order, so each key once, with the value of the newest source that
\* has the key; it yields every key whose newest value is not a tombstone.
C34_MergeYieldsNewestPerKey ==
    (mg.last.op = "new")
    => /\ mg.last.outcome = "ok"
       /\ \A i \in 1..(Len(mg.yielded) - 1) : Less(mg.yielded[i].key, mg.yielded[i + 1].key)
       /\ \A i \in 1..Len(mg.yielded) :
            /\ \E s \in MgSources : Holds(mg.sources, s, mg.yielded[i].key)
            /\ mg.yielded[i].value = NewestValue(mg.sources, mg.yielded[i].key)
       /\ \A s \in MgSources : \A j \in 1..Len(mg.sources[s]) :
            NewestValue(mg.sources, mg.sources[s][j].key) # <<>>
            => \E i \in 1..Len(mg.yielded) : mg.yielded[i].key = mg.sources[s][j].key

\* C35: in read mode the merging iterator yields no empty value, and a key whose
\* newest entry is a tombstone is not yielded, older values of it included.
\* (The iterator has no compaction mode to construct.)
C35_ReadModeHidesTombstones ==
    (mg.last.op = "new")
    => /\ mg.last.outcome = "ok"
       /\ \A i \in 1..Len(mg.yielded) : mg.yielded[i].value # <<>>
       /\ \A s \in MgSources : \A j \in 1..Len(mg.sources[s]) :
            NewestValue(mg.sources, mg.sources[s][j].key) = <<>>
            => \A i \in 1..Len(mg.yielded) : mg.yielded[i].key # mg.sources[s][j].key

----------------------------------------------------------------------------
(* Claims about MemTableManager *)

\* C2: a freeze called while the immutable slot is occupied fails with FlushBacklog
\* and leaves the active and the immutable memtable unchanged.
C2_FreezeFailsOnBacklog ==
    [][ (call'.op = "freeze" /\ mgr.immutable # <<>>)
            => (call'.outcome = "FlushBacklog" /\ mgr' = mgr) ]_vars

\* C3: as long as clear_immutable has not been called, a value get(k) returns is
\* still returned after a freeze and after a put or delete of another key.
C3_FreezeNeverDropsData ==
    [][ \A k \in Keys :
          ( /\ ~hist'.cleared
            /\ MgrGet(mgr, k) # <<>>
            /\ \/ call'.op = "freeze"
               \/ (call'.op \in { "put", "delete" } /\ call'.key # k) )
          => MgrGet(mgr', k) = MgrGet(mgr, k) ]_vars

\* C4: while the last write given for k is a delete, get(k) is absent, also when
\* the immutable memtable holds an older value of k.
C4_DeleteHidesKey ==
    \A k \in Keys : hist.last[k] = "delete" => MgrGet(mgr, k) = <<>>

\* C5: when the active and the immutable memtable were both given a non-empty
\* value for a key, get returns the one given to the active memtable.
C5_ActiveShadowsImmutable ==
    ( /\ call.op = "get"
      /\ hist.imm # <<>>
      /\ hist.act[call.key] # <<>>
      /\ hist.act[call.key][1] # <<>>
      /\ hist.imm[1][call.key] # <<>>
      /\ hist.imm[1][call.key][1] # <<>> )
    => call.res = hist.act[call.key]

\* put(k, 5); freeze(); put(k, 6); get(k) has returned 6
C5_Witness ==
    /\ call.op = "get"
    /\ hist.imm # <<>>
    /\ hist.imm[1][call.key] = << <<5>> >>
    /\ hist.act[call.key] = << <<6>> >>
    /\ call.res = << <<6>> >>

C6_GetSeesReleasedWrites ==
    \A t \in DOMAIN thr :
        (thr[t].pc = "idle" /\ thr[t].op = "get" /\ ~wlog.cleared)
        => LET w == wlog.writes[thr[t].key]
               n == thr[t].seen
           IN IF n = 0
              THEN thr[t].res = <<>> \/ \E j \in 1..Len(w) : w[j] = thr[t].res
              ELSE \E j \in n..Len(w) : w[j] = thr[t].res

\* C7: under fair lock scheduling every call that was started returns.
C7_EveryCallReturns ==
    \A t \in Threads : (thr[t].pc # "idle") ~> (thr[t].pc = "idle")

\* the threads holding the active lock for writing / for reading
ActiveWriters ==
    { t \in DOMAIN thr :
        thr[t].pc \in { "put_held", "delete_held", "freeze_wait_imm", "freeze_held" } }
ActiveReaders == { t \in DOMAIN thr : thr[t].pc \in { "get_active", "full_held" } }

\* C8: at most one put, delete or freeze holds the active lock, and none while a
\* get holds it; a value a get returned is the value of a completed put to its key.
C8_WritersExclusive ==
    /\ Cardinality(ActiveWriters) <= 1
    /\ ActiveWriters # {} => ActiveReaders = {}
    /\ \A t \in DOMAIN thr :
         (thr[t].pc = "idle" /\ thr[t].op = "get" /\ thr[t].res # <<>>)
         => \E j \in 1..Len(wlog.writes[thr[t].key]) :
                wlog.writes[thr[t].key][j] = thr[t].res

\* after a put has completed, two gets hold the active read lock together
C8_Witness ==
    /\ thr # <<>>
    /\ \A t \in Threads : thr[t].pc = "get_active"
    /\ \E k \in Keys : wlog.writes[k] # <<>>

====
